---- MODULE Spec2Model ----
(***************************************************************************)
(* Classification and quantity aggregation engine of the BIM viewer:       *)
(* uniformat.js (classification cascade, manual overrides and their        *)
(* persistence), estimate.js (quantity extraction and aggregation) and the *)
(* parts of viewer.js they read (models manifest, element data map).       *)
(*                                                                         *)
(* JavaScript strings that the code takes apart (keys, codes, names) are   *)
(* sequences of one-character strings; quantities are integers and the     *)
(* unit conversion factors are scaled to integers, so that sums are exact. *)
(***************************************************************************)
EXTENDS Integers, Sequences, FiniteSets, TLC

\* ======================== BOUNDS ========================
\* Models one page session may load (modelCounter never exceeds it).
MaxModels == 2
\* Entries the in-memory manualOverrides map may hold.
MaxOverrides == 2

\* ======================== JAVASCRIPT VALUES ========================
\* null: no string of one-character elements equals it.
Null == <<"null">>
\* A name that is a number instead of a string (a STEP file with a REAL where
\* the schema has an IfcLabel): no string of one-character elements equals it.
NumberName == <<"number">>

Str(s) == [t |-> "string", s |-> s, n |-> 0]
Num(n) == [t |-> "number", s |-> <<>>, n |-> n]
Bool(b) == [t |-> "boolean", s |-> <<>>, n |-> IF b THEN 1 ELSE 0]

UpperCase == <<"A", "B", "C", "D", "E", "F", "G", "H", "I", "J", "K", "L", "M", "N", "O", "P", "Q", "R", "S", "T", "U", "V", "W", "X", "Y", "Z">>
LowerCase == <<"a", "b", "c", "d", "e", "f", "g", "h", "i", "j", "k", "l", "m", "n", "o", "p", "q", "r", "s", "t", "u", "v", "w", "x", "y", "z">>
Digits == <<"0", "1", "2", "3", "4", "5", "6", "7", "8", "9">>

Range(s) == {s[i] : i \in 1..Len(s)}

\* String.prototype.toLowerCase
toLowerCase(s) ==
  [i \in 1..Len(s) |->
     IF \E j \in 1..26 : UpperCase[j] = s[i]
     THEN LowerCase[CHOOSE j \in 1..26 : UpperCase[j] = s[i]]
     ELSE s[i]]

\* String.prototype.includes
includes(s, t) == \E i \in 0..(Len(s) - Len(t)) : SubSeq(s, i + 1, i + Len(t)) = t

\* String.prototype.startsWith
startsWith(s, t) == Len(t) =< Len(s) /\ SubSeq(s, 1, Len(t)) = t

\* String.prototype.indexOf: 0-based position of the first occurrence, -1 if none
indexOf(s, t) ==
  IF includes(s, t)
  THEN CHOOSE i \in 0..(Len(s) - Len(t)) :
         /\ SubSeq(s, i + 1, i + Len(t)) = t
         /\ \A j \in 0..(i - 1) : SubSeq(s, j + 1, j + Len(t)) # t
  ELSE -1

\* String.prototype.lastIndexOf
lastIndexOf(s, t) ==
  IF includes(s, t)
  THEN CHOOSE i \in 0..(Len(s) - Len(t)) :
         /\ SubSeq(s, i + 1, i + Len(t)) = t
         /\ \A j \in (i + 1)..(Len(s) - Len(t)) : SubSeq(s, j + 1, j + Len(t)) # t
  ELSE -1

\* String.prototype.substring(a, b), 0-based, b exclusive, clamped to the string
substring(s, a, b) ==
  LET lo == IF a > Len(s) THEN Len(s) ELSE a
      hi == IF b > Len(s) THEN Len(s) ELSE b
  IN SubSeq(s, lo + 1, hi)

\* String.prototype.replace(t, r) with a string pattern: the first occurrence only
replaceFirst(s, t, r) ==
  LET i == indexOf(s, t)
  IN IF i < 0 THEN s
     ELSE SubSeq(s, 1, i) \o r \o SubSeq(s, i + Len(t) + 1, Len(s))

\* String.prototype.split(sep) for a one-character separator
RECURSIVE split(_, _)
split(s, sep) ==
  LET i == indexOf(s, sep)
  IN IF i < 0 THEN <<s>>
     ELSE <<SubSeq(s, 1, i)>> \o split(SubSeq(s, i + 2, Len(s)), sep)

\* Number -> decimal string (template literal `${n}`)
RECURSIVE NatToStr(_)
NatToStr(n) ==
  IF n < 10 THEN <<Digits[n + 1]>>
  ELSE NatToStr(n \div 10) \o <<Digits[(n % 10) + 1]>>

DigitValue(c) == (CHOOSE j \in 1..10 : Digits[j] = c) - 1
IsDigit(c) == \E j \in 1..10 : Digits[j] = c

\* NaN, the result of parseInt on a string that starts with no digit
NaN == -1

\* parseInt(s): the value of the longest prefix of decimal digits
RECURSIVE parseDigits(_, _)
parseDigits(s, acc) ==
  IF s = <<>> \/ ~IsDigit(Head(s)) THEN acc
  ELSE parseDigits(Tail(s), acc * 10 + DigitValue(Head(s)))

parseInt(s) == IF s = <<>> \/ ~IsDigit(Head(s)) THEN NaN ELSE parseDigits(s, 0)

\* ======================== JAVASCRIPT Map ========================
\* A Map is the sequence of its entries in insertion order.
MapKeys(m) == {m[i].key : i \in 1..Len(m)}
MapHas(m, k) == \E i \in 1..Len(m) : m[i].key = k
MapGet(m, k) == m[CHOOSE i \in 1..Len(m) : m[i].key = k].val
\* Map.prototype.set: an existing key keeps its position
MapSet(m, k, v) ==
  IF MapHas(m, k)
  THEN [i \in 1..Len(m) |-> IF m[i].key = k THEN [key |-> k, val |-> v] ELSE m[i]]
  ELSE Append(m, [key |-> k, val |-> v])
MapDelete(m, k) == SelectSeq(m, LAMBDA e : e.key # k)

\* ======================== UNIFORMAT II HIERARCHY ========================
\* Object.keys(L3_LABELS): the level-3 codes of UNIFORMAT_HIERARCHY
ALL_L3_CODES ==
  { <<"A", "1", "0", "1", "0">>, <<"A", "1", "0", "2", "0">>, <<"A", "1", "0", "3", "0">>, <<"A", "2", "0", "1", "0">>, <<"A", "2", "0", "2", "0">>,
    <<"B", "1", "0", "1", "0">>, <<"B", "1", "0", "2", "0">>, <<"B", "2", "0", "1", "0">>, <<"B", "2", "0", "2", "0">>, <<"B", "2", "0", "3", "0">>, <<"B", "3", "0", "1", "0">>, <<"B", "3", "0", "2", "0">>,
    <<"C", "1", "0", "1", "0">>, <<"C", "1", "0", "2", "0">>, <<"C", "1", "0", "3", "0">>, <<"C", "2", "0", "1", "0">>, <<"C", "2", "0", "2", "0">>,
    <<"C", "3", "0", "1", "0">>, <<"C", "3", "0", "2", "0">>, <<"C", "3", "0", "3", "0">>,
    <<"D", "1", "0", "1", "0">>, <<"D", "1", "0", "2", "0">>, <<"D", "1", "0", "9", "0">>,
    <<"D", "2", "0", "1", "0">>, <<"D", "2", "0", "2", "0">>, <<"D", "2", "0", "3", "0">>, <<"D", "2", "0", "4", "0">>, <<"D", "2", "0", "9", "0">>,
    <<"D", "3", "0", "1", "0">>, <<"D", "3", "0", "2", "0">>, <<"D", "3", "0", "3", "0">>, <<"D", "3", "0", "4", "0">>, <<"D", "3", "0", "5", "0">>, <<"D", "3", "0", "6", "0">>,
    <<"D", "3", "0", "7", "0">>, <<"D", "3", "0", "9", "0">>,
    <<"D", "4", "0", "1", "0">>, <<"D", "4", "0", "2", "0">>, <<"D", "4", "0", "3", "0">>, <<"D", "4", "0", "9", "0">>,
    <<"D", "5", "0", "1", "0">>, <<"D", "5", "0", "2", "0">>, <<"D", "5", "0", "3", "0">>, <<"D", "5", "0", "9", "0">>,
    <<"E", "1", "0", "1", "0">>, <<"E", "1", "0", "2", "0">>, <<"E", "1", "0", "3", "0">>, <<"E", "1", "0", "9", "0">>, <<"E", "2", "0", "1", "0">>, <<"E", "2", "0", "2", "0">>,
    <<"F", "1", "0", "1", "0">>, <<"F", "1", "0", "2", "0">>, <<"F", "1", "0", "3", "0">>, <<"F", "1", "0", "4", "0">>, <<"F", "1", "0", "5", "0">>, <<"F", "2", "0", "1", "0">>, <<"F", "2", "0", "2", "0">> }

\* L3_LABELS is an object literal, so a lookup also finds what it inherits
\* from Object.prototype; every such member is truthy.
ObjectPrototypeKeys ==
  { <<"c", "o", "n", "s", "t", "r", "u", "c", "t", "o", "r">>, <<"t", "o", "S", "t", "r", "i", "n", "g">>, <<"v", "a", "l", "u", "e", "O", "f">>, <<"h", "a", "s", "O", "w", "n", "P", "r", "o", "p", "e", "r", "t", "y">>,
    <<"i", "s", "P", "r", "o", "t", "o", "t", "y", "p", "e", "O", "f">>, <<"p", "r", "o", "p", "e", "r", "t", "y", "I", "s", "E", "n", "u", "m", "e", "r", "a", "b", "l", "e">>, <<"t", "o", "L", "o", "c", "a", "l", "e", "S", "t", "r", "i", "n", "g">>, <<"_", "_", "p", "r", "o", "t", "o", "_", "_">> }

\* The truthiness of L3_LABELS[code], the code's validity test everywhere
L3_LABELS(code) == code \in ALL_L3_CODES \/ code \in ObjectPrototypeKeys

\* IFC_TYPE_DEFAULT_MAP[ifcType] || null
IFC_TYPE_DEFAULT_MAP(ifcType) ==
  CASE ifcType = "IFCFOOTING" -> <<"A", "1", "0", "1", "0">>
    [] ifcType = "IFCPILE" -> <<"A", "1", "0", "2", "0">>
    [] ifcType \in {"IFCBEAM", "IFCCOLUMN", "IFCMEMBER", "IFCPLATE", "IFCSLAB",
                    "IFCELEMENTASSEMBLY"} -> <<"B", "1", "0", "1", "0">>
    [] ifcType \in {"IFCWALL", "IFCWALLSTANDARDCASE", "IFCCURTAINWALL"} -> <<"B", "2", "0", "1", "0">>
    [] ifcType = "IFCWINDOW" -> <<"B", "2", "0", "2", "0">>
    [] ifcType = "IFCDOOR" -> <<"B", "2", "0", "3", "0">>
    [] ifcType = "IFCRAILING" -> <<"C", "1", "0", "3", "0">>
    [] ifcType \in {"IFCSTAIR", "IFCSTAIRFLIGHT", "IFCRAMP", "IFCRAMPFLIGHT"} -> <<"C", "2", "0", "1", "0">>
    [] OTHER -> Null

\* ======================== CLASSIFICATION ENGINE ========================
\* \s of the regular expressions (the ASCII members)
Whitespace == {" ", "\t", "\n", "\r", "\f"}

\* String.prototype.trim
RECURSIVE trimStart(_)
trimStart(s) == IF s # <<>> /\ Head(s) \in Whitespace THEN trimStart(Tail(s)) ELSE s
RECURSIVE trimEnd(_)
trimEnd(s) ==
  IF s # <<>> /\ s[Len(s)] \in Whitespace THEN trimEnd(SubSeq(s, 1, Len(s) - 1)) ELSE s
trim(s) == trimEnd(trimStart(s))

\* s.replace(/[.\-\s]/g, '')
stripSeparators(s) == SelectSeq(s, LAMBDA c : c \notin ({".", "-"} \cup Whitespace))

\* /^[A-F]\d{4}$/.test(s)
ufPattern(s) ==
  /\ Len(s) = 5
  /\ s[1] \in {"A", "B", "C", "D", "E", "F"}
  /\ \A i \in 2..5 : IsDigit(s[i])

classificationKeys ==
  << <<"u", "n", "i", "f", "o", "r", "m", "a", "t">>, <<"u", "n", "i", "f", "o", "r", "m", "a", "t", "i", "i">>, <<"c", "l", "a", "s", "s", "i", "f", "i", "c", "a", "t", "i", "o", "n">>, <<"a", "s", "s", "e", "m", "b", "l", "y", " ", "c", "o", "d", "e">>,
     <<"a", "s", "s", "e", "m", "b", "l", "y", "c", "o", "d", "e">>, <<"a", "s", "s", "e", "m", "b", "l", "y", "_", "c", "o", "d", "e">>, <<"o", "m", "n", "i", "c", "l", "a", "s", "s">>, <<"u", "n", "i", "c", "l", "a", "s", "s">>,
     <<"c", "l", "a", "s", "s", "i", "f", "i", "c", "a", "t", "i", "o", "n", "c", "o", "d", "e">>, <<"c", "l", "a", "s", "s", "i", "f", "i", "c", "a", "t", "i", "o", "n", " ", "c", "o", "d", "e">> >>

\* Variant of detectFromProperty that takes every value of the pattern,
\* whether or not it is a level-3 code of the hierarchy
detectFromPropertyAnyCode(propKey, propVal) ==
  LET keyLower == toLowerCase(propKey)
      isClassProp == \E i \in 1..Len(classificationKeys) :
                        includes(keyLower, classificationKeys[i])
      cleaned == stripSeparators(trim(propVal.s))
  IN IF isClassProp /\ propVal.t = "string" /\ ufPattern(cleaned) THEN cleaned ELSE Null

\* The code one property yields in detectFromProperties, Null if none
detectFromProperty(propKey, propVal) ==
  LET keyLower == toLowerCase(propKey)
      isClassProp == \E i \in 1..Len(classificationKeys) :
                        includes(keyLower, classificationKeys[i])
      cleaned == stripSeparators(trim(propVal.s))
      parts == stripSeparators(propVal.s)
  IN IF isClassProp /\ propVal.t = "string"
     THEN IF ufPattern(cleaned) /\ L3_LABELS(cleaned) THEN cleaned
          ELSE IF ufPattern(parts) /\ L3_LABELS(parts) THEN parts
          ELSE Null
     ELSE Null

\* detectFromProperties(data): the first property, in entry order, that yields a code
RECURSIVE detectFromEntries(_)
detectFromEntries(props) ==
  IF props = <<>> THEN Null
  ELSE LET c == detectFromProperty(Head(props).key, Head(props).val)
       IN IF c # Null THEN c ELSE detectFromEntries(Tail(props))

detectFromProperties(data) == detectFromEntries(data.props)

\* The isExternal loop of contextAwareMap: "true", "false" or "null"; a later
\* matching property overwrites an earlier one, an unrecognised value leaves it
RECURSIVE detectIsExternal(_, _)
detectIsExternal(props, acc) ==
  IF props = <<>> THEN acc
  ELSE LET k == toLowerCase(Head(props).key)
           v == Head(props).val
           isTrue == \/ (v.t = "boolean" /\ v.n = 1)
                     \/ (v.t = "string" /\ v.s \in {<<"T", "r", "u", "e">>, <<".", "T", ".">>})
                     \/ (v.t = "number" /\ v.n = 1)
           isFalse == \/ (v.t = "boolean" /\ v.n = 0)
                      \/ (v.t = "string" /\ v.s \in {<<"F", "a", "l", "s", "e">>, <<".", "F", ".">>})
                      \/ (v.t = "number" /\ v.n = 0)
           next == IF includes(k, <<"i", "s", "e", "x", "t", "e", "r", "n", "a", "l">>) \/ includes(k, <<"i", "s", "_", "e", "x", "t", "e", "r", "n", "a", "l">>)
                   THEN IF isTrue THEN "true" ELSE IF isFalse THEN "false" ELSE acc
                   ELSE acc
       IN detectIsExternal(Tail(props), next)

contextAwareMap(data) ==
  LET type == data.ifcType
      name == toLowerCase(data.name)
      storey == toLowerCase(data.storey)
      isExternal == detectIsExternal(data.props, "null")
  IN CASE type \in {"IFCWALL", "IFCWALLSTANDARDCASE"} ->
            IF isExternal = "false" THEN <<"C", "1", "0", "1", "0">>
            ELSE IF includes(name, <<"p", "a", "r", "t", "i", "t", "i", "o", "n">>) \/ includes(name, <<"i", "n", "t", "e", "r", "i", "o", "r">>)
              THEN <<"C", "1", "0", "1", "0">>
            ELSE IF \/ includes(storey, <<"b", "a", "s", "e", "m", "e", "n", "t">>) \/ includes(storey, <<"b", "1">>)
                    \/ includes(storey, <<"b", "2">>) \/ includes(storey, <<"u", "n", "d", "e", "r", "g", "r", "o", "u", "n", "d">>)
                    \/ includes(storey, <<"s", "u", "b">>)
              THEN <<"A", "2", "0", "2", "0">>
            ELSE <<"B", "2", "0", "1", "0">>
       [] type = "IFCDOOR" ->
            IF isExternal = "false" THEN <<"C", "1", "0", "2", "0">>
            ELSE IF includes(name, <<"i", "n", "t", "e", "r", "i", "o", "r">>) \/ includes(name, <<"i", "n", "t", ".">>)
              THEN <<"C", "1", "0", "2", "0">>
            ELSE <<"B", "2", "0", "3", "0">>
       [] type = "IFCWINDOW" -> <<"B", "2", "0", "2", "0">>
       [] type = "IFCSLAB" ->
            IF includes(name, <<"r", "o", "o", "f">>) \/ includes(storey, <<"r", "o", "o", "f">>) THEN <<"B", "1", "0", "2", "0">>
            ELSE IF \/ includes(name, <<"g", "r", "a", "d", "e">>) \/ includes(name, <<"s", "o", "g">>)
                    \/ includes(name, <<"o", "n", " ", "g", "r", "a", "d", "e">>)
              THEN <<"A", "1", "0", "3", "0">>
            ELSE IF includes(storey, <<"b", "a", "s", "e", "m", "e", "n", "t">>) \/ includes(storey, <<"f", "o", "u", "n", "d", "a", "t", "i", "o", "n">>)
              THEN <<"A", "1", "0", "3", "0">>
            ELSE <<"B", "1", "0", "1", "0">>
       [] type = "IFCFOOTING" ->
            IF \/ includes(name, <<"p", "i", "l", "e">>) \/ includes(name, <<"c", "a", "i", "s", "s", "o", "n">>)
               \/ includes(name, <<"d", "r", "i", "l", "l", "e", "d">>)
            THEN <<"A", "1", "0", "2", "0">>
            ELSE <<"A", "1", "0", "1", "0">>
       [] OTHER -> Null

\* Whether contextAwareMap raises: (data.name || '').toLowerCase() and the same
\* on data.storey are TypeErrors when the value is a number other than 0
contextAwareMapRaises(data) == data.name = NumberName \/ data.storey = NumberName

\* Whether passes 1 to 3 raise: pass 1 reads the properties only, pass 2 is
\* reached when it finds no code
ClassifyRaises(data) == detectFromProperties(data) = Null /\ contextAwareMapRaises(data)

\* A classification record; confidence is in hundredths (1.0 = 100)
Record(code, source, confidence) ==
  [code |-> code, source |-> source, confidence |-> confidence]

\* Variant of ClassifyComputed that tries the type default before the
\* contextual heuristics
ClassifyComputedDefaultFirst(data) ==
  LET fromProps == detectFromProperties(data)
      contextCode == contextAwareMap(data)
      defaultCode == IFC_TYPE_DEFAULT_MAP(data.ifcType)
  IN IF fromProps # Null THEN Record(fromProps, "ifc-property", 100)
     ELSE IF defaultCode # Null THEN Record(defaultCode, "auto-mapped", 50)
     ELSE IF contextCode # Null THEN Record(contextCode, "auto-mapped", 70)
     ELSE Record(Null, "none", 0)

\* One iteration of the loop of classifyAllElements, for an element without
\* manual override: passes 1 to 3 and the unclassified record
ClassifyComputed(data) ==
  LET fromProps == detectFromProperties(data)
      contextCode == contextAwareMap(data)
      defaultCode == IFC_TYPE_DEFAULT_MAP(data.ifcType)
  IN IF fromProps # Null THEN Record(fromProps, "ifc-property", 100)
     ELSE IF contextCode # Null THEN Record(contextCode, "auto-mapped", 70)
     ELSE IF defaultCode # Null THEN Record(defaultCode, "auto-mapped", 50)
     ELSE Record(Null, "none", 0)

\* Variant of Reclassify that gives a type default the confidence of a
\* heuristic match
ReclassifyDefaultAsHeuristic(data) ==
  LET fromProps == detectFromProperties(data)
      ctx == contextAwareMap(data)
      def == IFC_TYPE_DEFAULT_MAP(data.ifcType)
  IN IF fromProps # Null THEN Record(fromProps, "ifc-property", 100)
     ELSE IF ctx # Null THEN Record(ctx, "auto-mapped", 70)
     ELSE Record(def,
                 IF def # Null THEN "auto-mapped" ELSE "none",
                 IF def # Null THEN 70 ELSE 0)

\* The re-classification of setManualClassification(key, null)
Reclassify(data) ==
  LET fromProps == detectFromProperties(data)
      ctx == contextAwareMap(data)
      def == IFC_TYPE_DEFAULT_MAP(data.ifcType)
  IN IF fromProps # Null THEN Record(fromProps, "ifc-property", 100)
     ELSE IF ctx # Null THEN Record(ctx, "auto-mapped", 70)
     ELSE Record(def,
                 IF def # Null THEN "auto-mapped" ELSE "none",
                 IF def # Null THEN 50 ELSE 0)

\* ======================== IFC FILES ========================
\* What web-ifc yields for the files the user can pick: per file its meshes
\* in stream order, each with the element data extractProperties reads.
Prop(k, v) == [key |-> k, val |-> v]

Element(expressID, ifcType, name, storey, props) ==
  [expressID |-> expressID, ifcType |-> ifcType, name |-> name,
   storey |-> storey, props |-> props]

FileNames == { <<"A", ".", "i", "f", "c">>, <<"B", ".", "i", "f", "c">> }

FileA ==
  << Element(1, "IFCWALL", <<"W", "a", "l", "l", ":", "G", "e", "n", "e", "r", "i", "c">>, <<"L", "e", "v", "e", "l", " ", "1">>,
             << Prop(<<"P", "s", "e", "t", "_", "W", "a", "l", "l", "C", "o", "m", "m", "o", "n", ".", "I", "s", "E", "x", "t", "e", "r", "n", "a", "l">>, Bool(FALSE)),
                Prop(<<"B", "a", "s", "e", "Q", "u", "a", "n", "t", "i", "t", "i", "e", "s", ".", "N", "e", "t", "V", "o", "l", "u", "m", "e">>, Num(25)),
                Prop(<<"B", "a", "s", "e", "Q", "u", "a", "n", "t", "i", "t", "i", "e", "s", ".", "G", "r", "o", "s", "s", "V", "o", "l", "u", "m", "e">>, Num(30)) >>),
     Element(2, "IFCWALL", <<"W", "a", "l", "l", ":", "F", "a", "c", "a", "d", "e">>, <<"L", "e", "v", "e", "l", " ", "2">>,
             << Prop(<<"D", "a", "t", "a", ".", "A", "s", "s", "e", "m", "b", "l", "y", " ", "C", "o", "d", "e">>, Str(<<"B", "2", "0", ".", "1", "0">>)),
                Prop(<<"D", "i", "m", "e", "n", "s", "i", "o", "n", "s", ".", "A", "r", "e", "a">>, Num(120)) >>) >>

FileB ==
  << Element(1, "IFCBEAM", <<"U", "n", "n", "a", "m", "e", "d">>, <<"L", "e", "v", "e", "l", " ", "1">>,
             << Prop(<<"Q", "t", "o", "_", "B", "e", "a", "m", "B", "a", "s", "e", "Q", "u", "a", "n", "t", "i", "t", "i", "e", "s", ".", "L", "e", "n", "g", "t", "h">>, Num(60)) >>),
     Element(2, "IFCBUILDINGELEMENTPROXY", <<"U", "n", "n", "a", "m", "e", "d">>, <<"U", "n", "a", "s", "s", "i", "g", "n", "e", "d">>, <<>>) >>

\* A file whose first element has a number as Name
FileC ==
  << Element(1, "IFCWALL", NumberName, <<"L", "e", "v", "e", "l", " ", "1">>, <<>>),
     Element(2, "IFCBEAM", <<"U", "n", "n", "a", "m", "e", "d">>, <<"L", "e", "v", "e", "l", " ", "1">>, <<>>) >>

MalformedFileNames == { <<"C", ".", "i", "f", "c">> }

IfcFile(name) ==
  IF name = <<"A", ".", "i", "f", "c">> THEN FileA ELSE IF name = <<"B", ".", "i", "f", "c">> THEN FileB ELSE FileC

IfcTypes == {"IFCWALL", "IFCBEAM", "IFCBUILDINGELEMENTPROXY"}

\* The element data extractProperties stores for the elements of the files
CatalogData ==
  UNION { { [ifcType |-> IfcFile(f)[i].ifcType, name |-> IfcFile(f)[i].name,
             storey |-> IfcFile(f)[i].storey, props |-> IfcFile(f)[i].props] :
              i \in 1..Len(IfcFile(f)) } : f \in FileNames \cup MalformedFileNames }

\* The cascade and the quantities are functions of the element's data alone:
\* their results, computed once for the elements of the files
ClassifyComputedOf == [d \in CatalogData |-> ClassifyComputed(d)]
ReclassifyOf == [d \in CatalogData |-> Reclassify(d)]
ClassifyRaisesOf == [d \in CatalogData |-> ClassifyRaises(d)]

\* Variant of ClassifyElement that runs the cascade without looking at the
\* manual overrides first
ClassifyElementCascadeOnly(overrides, key, data) == ClassifyComputedOf[data]

\* One iteration of the loop of classifyAllElements
ClassifyElement(overrides, key, data) ==
  IF MapHas(overrides, key)
  THEN Record(MapGet(overrides, key), "manual", 100)
  ELSE ClassifyComputedOf[data]

\* ======================== STATE ========================
VARIABLES
  models,           \* viewer.js: [{ idx, filename, elementCount }], in load order
  modelCounter,     \* viewer.js: the next model index
  elementDataMap,   \* viewer.js: Map compositeKey -> { ifcType, name, storey, props, modelIdx }
  elementMeshMap,   \* viewer.js: Map compositeKey -> mesh (its userData)
  storeys,          \* viewer.js: { name -> { name, elevation_m, expressID, modelIdx } }
  loads,            \* viewer.js: the calls of loadIFCFiles that wait at an await
  classifications,  \* uniformat.js: Map compositeKey -> { code, source, confidence }
  manualOverrides,  \* uniformat.js: Map compositeKey -> L3 code
  storage,          \* localStorage['uf_manual_overrides']: NoItem or the saved object
  lastOp,           \* history: the handler that ran last, with its arguments
  writes,           \* history: localStorage.setItem calls made by that handler
  pinned,           \* history: the manual assignment followed across an unload
  probe,            \* a call of a pure function under examination: input and result
  completion        \* history: how the last handler ended (error raised, store written)

vars == <<models, modelCounter, elementDataMap, elementMeshMap, storeys, loads, classifications, manualOverrides,
          storage, lastOp, writes, pinned, probe, completion>>

\* localStorage.getItem of a key never written
NoItem == [present |-> FALSE, data |-> <<>>]
\* The item after localStorage.setItem(key, JSON.stringify(data))
Item(data) == [present |-> TRUE, data |-> data]
\* How a handler ended: whether an error left it, and whether it wrote the store
Ended(raised, saved) == [raised |-> raised, saved |-> saved]
\* No call of a pure function is under examination
NoProbe == [fn |-> "none"]
NoPin == [stage |-> "none", filename |-> <<>>, eid |-> <<>>, idx |-> 0, code |-> Null]

Op(name, key, code, type) == [op |-> name, key |-> key, code |-> code, type |-> type]

\* The function f with key k set to v (Map.set on a Map whose order is not read)
Put(f, k, v) == [x \in (DOMAIN f) \cup {k} |-> IF x = k THEN v ELSE f[x]]

EmptyMap == [x \in {} |-> Null]

\* ======================== VIEWER: MODELS ========================
makeKey(modelIdx, expressID) == NatToStr(modelIdx) \o <<":">> \o NatToStr(expressID)

\* loadGeometry and extractProperties for one file: its entries of elementDataMap.
\* An entry's value names the element (file, expressID) whose data it holds;
\* elementData gives { ifcType, name, storey, props }, which never change.
RECURSIVE extractProperties(_, _, _, _)
extractProperties(dataMap, modelIdx, file, elements) ==
  IF elements = <<>> THEN dataMap
  ELSE LET e == Head(elements)
           data == [file |-> file, expressID |-> e.expressID, modelIdx |-> modelIdx]
       IN extractProperties(MapSet(dataMap, makeKey(modelIdx, e.expressID), data),
                            modelIdx, file, Tail(elements))

elementData(val) ==
  LET elements == IfcFile(val.file)
      e == elements[CHOOSE i \in 1..Len(elements) : elements[i].expressID = val.expressID]
  IN [ifcType |-> e.ifcType, name |-> e.name, storey |-> e.storey, props |-> e.props]

\* The IfcBuildingStorey lines of the files, in the order of their ids
StoreysOfFile(name) ==
  IF name = <<"A", ".", "i", "f", "c">>
  THEN << [Name |-> <<"L", "e", "v", "e", "l", " ", "1">>, Elevation |-> 0, expressID |-> 101],
          [Name |-> <<"L", "e", "v", "e", "l", " ", "2">>, Elevation |-> 3, expressID |-> 102] >>
  ELSE << [Name |-> <<"L", "e", "v", "e", "l", " ", "1">>, Elevation |-> 0, expressID |-> 101] >>

\* extractStoreys for the IfcBuildingStorey lines of one file, from line i on:
\* the entries it writes to storeys, { name, elevation_m, expressID, modelIdx }
\* under the storey's name (Level i for a line without Name; suffixed when
\* another model has a storey of that name: the model being loaded is not yet
\* in models, so the suffix is its index)
RECURSIVE extractStoreysFrom(_, _, _, _, _)
extractStoreysFrom(sts, modelIdx, lines, unitFactor, i) ==
  IF lines = <<>> THEN sts
  ELSE LET line == Head(lines)
           name == IF line.Name = Null \/ line.Name = <<>>
                   THEN <<"L", "e", "v", "e", "l", " ">> \o NatToStr(i) ELSE line.Name
           storeyKey == IF MapHas(sts, name) /\ MapGet(sts, name).modelIdx # modelIdx
                        THEN name \o <<" ", "[">> \o NatToStr(modelIdx) \o <<"]">>
                        ELSE name
           entry == [name |-> storeyKey, elevation_m |-> line.Elevation * unitFactor,
                     expressID |-> line.expressID, modelIdx |-> modelIdx]
       IN extractStoreysFrom(MapSet(sts, storeyKey, entry), modelIdx, Tail(lines),
                             unitFactor, i + 1)

extractStoreys(sts, modelIdx, lines, unitFactor) ==
  extractStoreysFrom(sts, modelIdx, lines, unitFactor, 0)

\* storeys after the for loop of loadIFCFiles: extractStoreys per file, with
\* the index the file gets
RECURSIVE loadStoreys(_, _, _)
loadStoreys(sts, counter, files) ==
  IF files = <<>> THEN sts
  ELSE loadStoreys(extractStoreys(sts, counter, StoreysOfFile(Head(files)), 1),
                   counter + 1, Tail(files))

\* The state of the viewer as a record, for the loops below
Viewer(ms, counter, dataMap) == [models |-> ms, modelCounter |-> counter, elementDataMap |-> dataMap]

\* The for loop of loadIFCFiles
RECURSIVE loadLoop(_, _)
loadLoop(v, files) ==
  IF files = <<>> THEN v
  ELSE LET name == Head(files)
           idx == v.modelCounter
           modelEntry == [idx |-> idx,
                          filename |-> replaceFirst(name, <<".", "i", "f", "c">>, <<>>),
                          elementCount |-> Len(IfcFile(name))]
       IN loadLoop(Viewer(Append(v.models, modelEntry),
                          idx + 1,
                          extractProperties(v.elementDataMap, idx, name, IfcFile(name))),
                   Tail(files))

\* models.find(m => m.idx === modelIdx): its position, 0 if none
findByIdx(ms, modelIdx) ==
  IF \E i \in 1..Len(ms) : ms[i].idx = modelIdx
  THEN CHOOSE i \in 1..Len(ms) :
         ms[i].idx = modelIdx /\ \A j \in 1..(i - 1) : ms[j].idx # modelIdx
  ELSE 0

\* models.find(m => m.filename === filename): its position, 0 if none
findByFilename(ms, filename) ==
  IF \E i \in 1..Len(ms) : ms[i].filename = filename
  THEN CHOOSE i \in 1..Len(ms) :
         ms[i].filename = filename /\ \A j \in 1..(i - 1) : ms[j].filename # filename
  ELSE 0

\* ======================== SAVE / LOAD OVERRIDES ========================
toStableKey(ms, compositeKey) ==
  LET parts == split(compositeKey, <<":">>)
      idxStr == parts[1]
      eidStr == IF Len(parts) > 1 THEN parts[2] ELSE <<"u", "n", "d", "e", "f", "i", "n", "e", "d">>
      i == findByIdx(ms, parseInt(idxStr))
  IN IF i = 0 THEN Null ELSE ms[i].filename \o <<":">> \o eidStr

fromStableKey(ms, stableKey) ==
  LET colonIdx == lastIndexOf(stableKey, <<":">>)
      filename == substring(stableKey, 0, colonIdx)
      eid == substring(stableKey, colonIdx + 1, Len(stableKey))
      i == findByFilename(ms, filename)
  IN IF colonIdx < 0 THEN Null
     ELSE IF i = 0 THEN Null
     ELSE NatToStr(ms[i].idx) \o <<":">> \o eid

\* The object saveOverrides builds: { stableKey -> code }, in property order
RECURSIVE overridesData(_, _, _)
overridesData(ms, overrides, data) ==
  IF overrides = <<>> THEN data
  ELSE LET sk == toStableKey(ms, Head(overrides).key)
       IN overridesData(ms, Tail(overrides),
                        IF sk # Null THEN MapSet(data, sk, Head(overrides).val) ELSE data)

\* Variant of saveOverridesRaises without the try/catch around setItem
saveOverridesUncaught(setItemOk) == ~setItemOk

\* Whether an error leaves saveOverrides: its body is one try block whose catch
\* logs a warning, so none does
saveOverridesRaises(setItemOk) == FALSE

\* saveOverrides: the item after the call; a setItem that throws leaves it as it was
saveOverrides(ms, overrides, item, setItemOk) ==
  IF setItemOk THEN Item(overridesData(ms, overrides, <<>>)) ELSE item

\* Variant of applyEntries that leaves an element's existing override in place
RECURSIVE applyEntriesKeepExisting(_, _, _)
applyEntriesKeepExisting(ms, overrides, entries) ==
  IF entries = <<>> THEN overrides
  ELSE LET ck == fromStableKey(ms, Head(entries).key)
           l3Code == Head(entries).val
       IN applyEntriesKeepExisting(ms,
                       IF ck # Null /\ L3_LABELS(l3Code) /\ ~MapHas(overrides, ck)
                       THEN MapSet(overrides, ck, l3Code) ELSE overrides,
                       Tail(entries))

\* The loop of loadOverrides and of importOverridesFromFile over the entries
RECURSIVE applyEntries(_, _, _)
applyEntries(ms, overrides, entries) ==
  IF entries = <<>> THEN overrides
  ELSE LET ck == fromStableKey(ms, Head(entries).key)
           l3Code == Head(entries).val
       IN applyEntries(ms,
                       IF ck # Null /\ L3_LABELS(l3Code)
                       THEN MapSet(overrides, ck, l3Code) ELSE overrides,
                       Tail(entries))

loadOverrides(ms, overrides, item) ==
  IF ~item.present THEN overrides ELSE applyEntries(ms, overrides, item.data)

\* What loadOverrides returns: the entries it applied
RECURSIVE loadedCount(_, _)
loadedCount(ms, entries) ==
  IF entries = <<>> THEN 0
  ELSE (IF fromStableKey(ms, Head(entries).key) # Null /\ L3_LABELS(Head(entries).val)
        THEN 1 ELSE 0) + loadedCount(ms, Tail(entries))

\* The loop of classifyAllElements over the entries of elementDataMap: it has
\* no error handler, so the first element whose cascade raises ends it
RECURSIVE classifyLoop(_, _, _)
classifyLoop(cls, entries, overrides) ==
  IF entries = <<>> THEN [cls |-> cls, raised |-> FALSE]
  ELSE LET key == Head(entries).key
           data == elementData(Head(entries).val)
       IN IF ~MapHas(overrides, key) /\ ClassifyRaisesOf[data]
          THEN [cls |-> cls, raised |-> TRUE]
          ELSE classifyLoop(Put(cls, key, ClassifyElement(overrides, key, data)),
                            Tail(entries), overrides)

\* classifyAllElements: the classifications map it leaves (cleared, then filled
\* by the loop), and whether an error left it
classifyAllElements(dataMap, overrides) == classifyLoop(EmptyMap, dataMap, overrides).cls
classifyAllElementsRaises(dataMap, overrides) ==
  classifyLoop(EmptyMap, dataMap, overrides).raised

\* ======================== ESTIMATE: QUANTITIES ========================
\* M2_TO_SF = 10.7639, in ten-thousandths
M2_TO_SF == 107639
\* M_TO_LF = 3.28084, in hundred-thousandths
M_TO_LF == 328084
\* M3_TO_CY = 1.30795, in hundred-thousandths
M3_TO_CY == 130795

QTO_SET_NAMES ==
  << <<"b", "a", "s", "e", "q", "u", "a", "n", "t", "i", "t", "i", "e", "s">>, <<"q", "t", "o", "_">>, <<"d", "i", "m", "e", "n", "s", "i", "o", "n", "s">>, <<"q", "u", "a", "n", "t", "i", "t", "i", "e", "s">>,
     <<"e", "l", "e", "m", "e", "n", "t", "q", "u", "a", "n", "t", "i", "t", "y">>, <<"a", "n", "a", "l", "y", "t", "i", "c", "a", "l", " ", "p", "r", "o", "p", "e", "r", "t", "i", "e", "s">>, <<"p", "s", "e", "t", "_", "r", "e", "v", "i", "t", "_", "d", "i", "m", "e", "n", "s", "i", "o", "n", "s">> >>

QUANTITY_NAME_KEYWORDS ==
  << <<"a", "r", "e", "a">>, <<"s", "u", "r", "f", "a", "c", "e">>, <<"v", "o", "l", "u", "m", "e">>,
     <<"l", "e", "n", "g", "t", "h">>, <<"h", "e", "i", "g", "h", "t">>, <<"w", "i", "d", "t", "h">>, <<"d", "e", "p", "t", "h">>, <<"p", "e", "r", "i", "m", "e", "t", "e", "r">>, <<"t", "h", "i", "c", "k", "n", "e", "s", "s">>,
     <<"c", "o", "u", "n", "t">> >>

\* Variant of classifyQuantityKey that looks only at properties of the known
\* quantity sets
classifyQuantityKeyKnownSetOnly(propKey) ==
  LET lower == toLowerCase(propKey)
      parts == split(lower, <<".">>)
      setName == parts[1]
      name == parts[Len(parts)]
      isKnownSet == \E i \in 1..Len(QTO_SET_NAMES) : startsWith(setName, QTO_SET_NAMES[i])
  IN IF ~isKnownSet THEN "null"
     ELSE IF includes(name, <<"a", "r", "e", "a">>) \/ includes(name, <<"s", "u", "r", "f", "a", "c", "e">>) THEN "area"
     ELSE IF includes(name, <<"v", "o", "l", "u", "m", "e">>) THEN "volume"
     ELSE IF \/ includes(name, <<"l", "e", "n", "g", "t", "h">>) \/ includes(name, <<"h", "e", "i", "g", "h", "t">>)
             \/ includes(name, <<"w", "i", "d", "t", "h">>) \/ includes(name, <<"d", "e", "p", "t", "h">>)
             \/ includes(name, <<"p", "e", "r", "i", "m", "e", "t", "e", "r">>) \/ includes(name, <<"t", "h", "i", "c", "k", "n", "e", "s", "s">>)
       THEN "length"
     ELSE IF includes(name, <<"c", "o", "u", "n", "t">>) THEN "count"
     ELSE "null"

\* classifyQuantityKey(propKey): "area", "volume", "length", "count" or "null"
classifyQuantityKey(propKey) ==
  LET lower == toLowerCase(propKey)
      parts == split(lower, <<".">>)
      setName == parts[1]
      name == parts[Len(parts)]
      isKnownSet == \E i \in 1..Len(QTO_SET_NAMES) : startsWith(setName, QTO_SET_NAMES[i])
      isDimensionName == \E i \in 1..Len(QUANTITY_NAME_KEYWORDS) :
                            includes(name, QUANTITY_NAME_KEYWORDS[i])
  IN IF ~isKnownSet /\ ~isDimensionName THEN "null"
     ELSE IF includes(name, <<"a", "r", "e", "a">>) \/ includes(name, <<"s", "u", "r", "f", "a", "c", "e">>) THEN "area"
     ELSE IF includes(name, <<"v", "o", "l", "u", "m", "e">>) THEN "volume"
     ELSE IF \/ includes(name, <<"l", "e", "n", "g", "t", "h">>) \/ includes(name, <<"h", "e", "i", "g", "h", "t">>)
             \/ includes(name, <<"w", "i", "d", "t", "h">>) \/ includes(name, <<"d", "e", "p", "t", "h">>)
             \/ includes(name, <<"p", "e", "r", "i", "m", "e", "t", "e", "r">>) \/ includes(name, <<"t", "h", "i", "c", "k", "n", "e", "s", "s">>)
       THEN "length"
     ELSE IF includes(name, <<"c", "o", "u", "n", "t">>) THEN "count"
     ELSE "null"

\* Math.max(...values) of a non-empty set of numbers
MathMax(S) == CHOOSE x \in S : \A y \in S : y =< x

\* Variant of quantityOf that takes the largest candidate, gross or not
quantityOfLargest(props, cat) ==
  LET vals == SelectSeq(props, LAMBDA p : /\ classifyQuantityKey(p.key) = cat
                                          /\ p.val.t = "number" /\ p.val.n > 0)
  IN IF Len(vals) = 0 THEN 0
     ELSE MathMax({vals[i].val.n : i \in 1..Len(vals)})

\* result[cat] of extractQuantities: the largest gross candidate if there is
\* one, else the largest candidate, 0 without candidates
quantityOf(props, cat) ==
  LET vals == SelectSeq(props, LAMBDA p : /\ classifyQuantityKey(p.key) = cat
                                          /\ p.val.t = "number" /\ p.val.n > 0)
      gross == SelectSeq(vals, LAMBDA p : includes(toLowerCase(p.key), <<"g", "r", "o", "s", "s">>))
  IN IF Len(vals) = 0 THEN 0
     ELSE IF Len(gross) > 0 THEN MathMax({gross[i].val.n : i \in 1..Len(gross)})
     ELSE MathMax({vals[i].val.n : i \in 1..Len(vals)})

extractQuantities(props) ==
  [area |-> quantityOf(props, "area"), volume |-> quantityOf(props, "volume"),
   length |-> quantityOf(props, "length"), count |-> quantityOf(props, "count")]

extractQuantitiesOf == [d \in CatalogData |-> extractQuantities(d.props)]

\* extractQuantities(data.props) for element data that may lack props: the
\* early return of extractQuantities on a missing bag
extractQuantitiesOfData(data) ==
  IF "props" \in DOMAIN data THEN extractQuantities(data.props)
  ELSE [area |-> 0, volume |-> 0, length |-> 0, count |-> 0]

\* ======================== ESTIMATE: AGGREGATION ========================
emptyAgg == [ea |-> 0, sf |-> 0, lf |-> 0, cy |-> 0, elements |-> <<>>]

addToAgg(agg, quantities, key) ==
  [ea |-> agg.ea + 1,
   sf |-> agg.sf + quantities.area * M2_TO_SF,
   lf |-> agg.lf + quantities.length * M_TO_LF,
   cy |-> agg.cy + quantities.volume * M3_TO_CY,
   elements |-> Append(agg.elements, key)]

\* obj[k] of an object used as a dictionary, or what the code creates when the
\* property is missing
GetOr(obj, k, fresh) == IF MapHas(obj, k) THEN MapGet(obj, k) ELSE fresh

\* Variant of spatialStep that adds to the storey's aggregate only when it
\* creates the type leaf
spatialStepStoreyOnce(acc, key, data) ==
  LET q == extractQuantitiesOf[data]
      storey == IF data.storey # <<>> THEN data.storey ELSE <<"U", "n", "a", "s", "s", "i", "g", "n", "e", "d">>
      ifcType == IF data.ifcType # "" THEN data.ifcType ELSE "UNKNOWN"
      node == GetOr(acc.tree, storey, [agg |-> emptyAgg, types |-> <<>>])
      leaf == GetOr(node.types, ifcType, emptyAgg)
  IN [tree |-> MapSet(acc.tree, storey,
                      [agg |-> IF MapHas(node.types, ifcType) THEN node.agg
                               ELSE addToAgg(node.agg, q, key),
                       types |-> MapSet(node.types, ifcType, addToAgg(leaf, q, key))]),
      totals |-> addToAgg(acc.totals, q, key)]

\* The body of the loop of aggregateSpatial, for one entry of elementDataMap
spatialStep(acc, key, data) ==
  LET q == extractQuantitiesOf[data]
      storey == IF data.storey # <<>> THEN data.storey ELSE <<"U", "n", "a", "s", "s", "i", "g", "n", "e", "d">>
      ifcType == IF data.ifcType # "" THEN data.ifcType ELSE "UNKNOWN"
      node == GetOr(acc.tree, storey, [agg |-> emptyAgg, types |-> <<>>])
      leaf == GetOr(node.types, ifcType, emptyAgg)
  IN [tree |-> MapSet(acc.tree, storey,
                      [agg |-> addToAgg(node.agg, q, key),
                       types |-> MapSet(node.types, ifcType, addToAgg(leaf, q, key))]),
      totals |-> addToAgg(acc.totals, q, key)]

RECURSIVE spatialLoop(_, _)
spatialLoop(acc, entries) ==
  IF entries = <<>> THEN acc
  ELSE spatialLoop(spatialStep(acc, Head(entries).key, elementData(Head(entries).val)),
                   Tail(entries))

\* aggregateSpatial(): { tree: storey -> { agg, types: ifcType -> agg }, totals }
aggregateSpatial(dataMap) == spatialLoop([tree |-> <<>>, totals |-> emptyAgg], dataMap)

\* Variant of uniformatStep that skips an element without code altogether
uniformatStepNoBucket(acc, key, data, cls) ==
  LET q == extractQuantitiesOf[data]
      unclass == key \notin DOMAIN cls \/ cls[key].code = Null \/ cls[key].code = <<>>
      l3 == cls[key].code
      l2 == substring(l3, 0, 3)
      l1 == substring(l3, 0, 1)
      n1 == GetOr(acc.tree, l1, [agg |-> emptyAgg, children |-> <<>>])
      n2 == GetOr(n1.children, l2, [agg |-> emptyAgg, children |-> <<>>])
      n3 == GetOr(n2.children, l3, emptyAgg)
  IN IF unclass
     THEN acc
     ELSE [tree |-> MapSet(acc.tree, l1,
                     [agg |-> addToAgg(n1.agg, q, key),
                      children |-> MapSet(n1.children, l2,
                        [agg |-> addToAgg(n2.agg, q, key),
                         children |-> MapSet(n2.children, l3, addToAgg(n3, q, key))])]),
           totals |-> addToAgg(acc.totals, q, key),
           unclassified |-> acc.unclassified]

\* The body of the loop of aggregateUniformat, for one entry of elementDataMap
uniformatStep(acc, key, data, cls) ==
  LET q == extractQuantitiesOf[data]
      unclass == key \notin DOMAIN cls \/ cls[key].code = Null \/ cls[key].code = <<>>
      l3 == cls[key].code
      l2 == substring(l3, 0, 3)
      l1 == substring(l3, 0, 1)
      n1 == GetOr(acc.tree, l1, [agg |-> emptyAgg, children |-> <<>>])
      n2 == GetOr(n1.children, l2, [agg |-> emptyAgg, children |-> <<>>])
      n3 == GetOr(n2.children, l3, emptyAgg)
  IN IF unclass
     THEN [acc EXCEPT !.unclassified = addToAgg(@, q, key),
                      !.totals = addToAgg(@, q, key)]
     ELSE [tree |-> MapSet(acc.tree, l1,
                     [agg |-> addToAgg(n1.agg, q, key),
                      children |-> MapSet(n1.children, l2,
                        [agg |-> addToAgg(n2.agg, q, key),
                         children |-> MapSet(n2.children, l3, addToAgg(n3, q, key))])]),
           totals |-> addToAgg(acc.totals, q, key),
           unclassified |-> acc.unclassified]

RECURSIVE uniformatLoop(_, _, _)
uniformatLoop(acc, entries, cls) ==
  IF entries = <<>> THEN acc
  ELSE uniformatLoop(uniformatStep(acc, Head(entries).key,
                                   elementData(Head(entries).val), cls),
                     Tail(entries), cls)

\* aggregateUniformat(): { tree: L1 -> L2 -> L3 -> agg, totals, unclassified }
aggregateUniformat(dataMap, cls) ==
  uniformatLoop([tree |-> <<>>, totals |-> emptyAgg, unclassified |-> emptyAgg],
                dataMap, cls)

\* ======================== HISTORY OF ONE MANUAL ASSIGNMENT ========================
\* pinned follows one manual assignment that was persisted, that of the element
\* Followed: "set" while its file is loaded, "unloaded" once no model of that
\* file is loaded, "reloaded" in the state right after the load that brought
\* the file back. It stops following (NoPin) when the assignment is changed, and
\* when the persisted store is rewritten while the file is unloaded.
Followed == <<"A", ":", "1">>

PinKey(p) == p.filename \o <<":">> \o p.eid

\* The history after a handler that ends in saveOverrides; changed tells
\* whether the handler changed the followed assignment
PinAfterSave(p, changed) ==
  IF p.stage = "unloaded" \/ changed THEN NoPin ELSE p

Settled(p) == IF p.stage = "reloaded" THEN NoPin ELSE p

PinAfterUnload(p, ms) ==
  IF p.stage = "set" /\ findByFilename(ms, p.filename) = 0
  THEN [p EXCEPT !.stage = "unloaded"] ELSE p

PinAfterLoad(p, ms) ==
  IF p.stage = "unloaded" /\ findByFilename(ms, p.filename) # 0
  THEN [p EXCEPT !.stage = "reloaded"] ELSE p

PinFor(ms, compositeKey, code) ==
  LET i == findByIdx(ms, parseInt(split(compositeKey, <<":">>)[1]))
  IN [stage |-> "set", filename |-> ms[i].filename,
      eid |-> split(compositeKey, <<":">>)[2], idx |-> ms[i].idx, code |-> code]

\* ======================== INPUTS ========================
\* Codes a caller passes to setManualClassification and bulkAssignByType
CodeInputs == { <<"B", "2", "0", "3", "0">>, <<"Z", "9", "9", "9", "9">>, <<"c", "o", "n", "s", "t", "r", "u", "c", "t", "o", "r">> }

\* Overrides files the user can import
ImportFiles ==
  { << Prop(<<"A", ":", "1">>, <<"B", "2", "0", "3", "0">>), Prop(<<"C", ":", "7">>, <<"B", "2", "0", "3", "0">>) >>,
    << Prop(<<"B", ":", "2">>, <<"c", "o", "n", "s", "t", "r", "u", "c", "t", "o", "r">>), Prop(<<"B", ":", "1">>, <<"Z", "9", "9", "9", "9">>) >> }

FileLists == { <<n>> : n \in FileNames }

\* Whether localStorage.setItem returns (TRUE) or throws (FALSE)
SetItemOutcomes == {TRUE}

\* ======================== OPERATIONS ========================
Init ==
  /\ models = <<>>
  /\ modelCounter = 0
  /\ elementDataMap = <<>>
  /\ elementMeshMap = <<>>
  /\ storeys = <<>>
  /\ loads = <<>>
  /\ classifications = EmptyMap
  /\ manualOverrides = <<>>
  /\ storage = NoItem
  /\ lastOp = Op("start", Null, Null, "")
  /\ writes = 0
  /\ pinned = NoPin
  /\ probe = NoProbe
  /\ completion = Ended(FALSE, FALSE)

\* initUniformatPanel: loadOverrides, then classifyAllElements
InitUniformatPanel(ms, dataMap) ==
  LET overrides == loadOverrides(ms, manualOverrides, storage)
  IN /\ manualOverrides' = overrides
     /\ classifications' = classifyAllElements(dataMap, overrides)

\* loadIFCFiles(files, append), and the uniformat-refresh it ends with
LoadIFCFiles(files, append) ==
  /\ modelCounter + Len(files) =< MaxModels
  /\ LET start == IF append THEN Viewer(models, modelCounter, elementDataMap)
                  ELSE Viewer(<<>>, modelCounter, <<>>)
         v == loadLoop(start, files)
     IN /\ models' = v.models
        /\ modelCounter' = v.modelCounter
        /\ elementDataMap' = v.elementDataMap
        /\ elementMeshMap' = v.elementDataMap
        /\ storeys' = loadStoreys(IF append THEN storeys ELSE <<>>, modelCounter, files)
        /\ InitUniformatPanel(v.models, v.elementDataMap)
        /\ pinned' = PinAfterLoad(PinAfterUnload(Settled(pinned), start.models), v.models)
  /\ lastOp' = Op("loadIFCFiles", Null, Null, "")
  /\ UNCHANGED <<probe, loads>>
  /\ completion' = Ended(classifyAllElementsRaises(elementDataMap', manualOverrides'), FALSE)
  /\ writes' = 0
  /\ UNCHANGED storage

\* A variant of clearAllModels that starts the indices again from 0
ClearAllModelsResettingCounter ==
  /\ models # <<>>
  /\ models' = <<>>
  /\ modelCounter' = 0
  /\ elementDataMap' = <<>>
  /\ elementMeshMap' = <<>>
  /\ storeys' = <<>>
  /\ pinned' = PinAfterUnload(Settled(pinned), <<>>)
  /\ lastOp' = Op("clearAllModels", Null, Null, "")
  /\ UNCHANGED <<probe, loads>>
  /\ completion' = Ended(FALSE, FALSE)
  /\ writes' = 0
  /\ UNCHANGED <<classifications, manualOverrides, storage>>

\* clearAllModels(), the Clear All button
ClearAllModels ==
  /\ models # <<>>
  /\ models' = <<>>
  /\ elementDataMap' = <<>>
  /\ elementMeshMap' = <<>>
  /\ storeys' = <<>>
  /\ pinned' = PinAfterUnload(Settled(pinned), <<>>)
  /\ lastOp' = Op("clearAllModels", Null, Null, "")
  /\ UNCHANGED <<probe, loads>>
  /\ completion' = Ended(FALSE, FALSE)
  /\ writes' = 0
  /\ UNCHANGED <<modelCounter, classifications, manualOverrides, storage>>

\* removeModel(idx): the last model removed ends in clearAllModels(), any other
\* removal in the uniformat-refresh
RemoveModel(idx) ==
  /\ findByIdx(models, idx) # 0
  /\ LET prefix == NatToStr(idx) \o <<":">>
         ms == SelectSeq(models, LAMBDA m : m.idx # idx)
         dataMap == SelectSeq(elementDataMap, LAMBDA e : ~startsWith(e.key, prefix))
     IN /\ models' = ms
        /\ elementDataMap' = IF ms = <<>> THEN <<>> ELSE dataMap
        /\ elementMeshMap' = IF ms = <<>> THEN <<>>
                              ELSE SelectSeq(elementMeshMap, LAMBDA e : ~startsWith(e.key, prefix))
        /\ storeys' = IF ms = <<>> THEN <<>>
                       ELSE SelectSeq(storeys, LAMBDA e : e.val.modelIdx # idx)
        /\ IF ms = <<>>
           THEN UNCHANGED <<classifications, manualOverrides>>
           ELSE InitUniformatPanel(ms, dataMap)
        /\ pinned' = PinAfterUnload(Settled(pinned), ms)
  /\ lastOp' = Op("removeModel", Null, Null, "")
  /\ UNCHANGED <<probe, loads>>
  /\ completion' = Ended(/\ models' # <<>>
                         /\ classifyAllElementsRaises(elementDataMap', manualOverrides'),
                         FALSE)
  /\ writes' = 0
  /\ UNCHANGED <<modelCounter, storage>>

\* The page is loaded anew: every module starts over, localStorage stays
ReloadPage ==
  /\ lastOp.op # "start"
  /\ models' = <<>>
  /\ modelCounter' = 0
  /\ elementDataMap' = <<>>
  /\ elementMeshMap' = <<>>
  /\ storeys' = <<>>
  /\ classifications' = EmptyMap
  /\ manualOverrides' = <<>>
  /\ pinned' = PinAfterUnload(Settled(pinned), <<>>)
  /\ lastOp' = Op("start", Null, Null, "")
  /\ UNCHANGED <<probe, loads>>
  /\ completion' = Ended(FALSE, FALSE)
  /\ writes' = 0
  /\ UNCHANGED storage

\* A variant of the Reclassify button that reads the records already stored:
\* a type default found again is stored with the confidence of a heuristic
ReclassifyAllPromoting ==
  /\ models # <<>>
  /\ classifications' =
       LET fresh == classifyAllElements(elementDataMap, manualOverrides)
       IN [k \in DOMAIN fresh |->
             IF /\ k \in DOMAIN classifications
                /\ classifications[k] = fresh[k]
                /\ fresh[k].source = "auto-mapped" /\ fresh[k].confidence = 50
             THEN Record(fresh[k].code, "auto-mapped", 70)
             ELSE fresh[k]]
  /\ pinned' = Settled(pinned)
  /\ lastOp' = Op("classifyAllElements", Null, Null, "")
  /\ UNCHANGED probe
  /\ completion' = Ended(classifyAllElementsRaises(elementDataMap, manualOverrides), FALSE)
  /\ writes' = 0
  /\ UNCHANGED <<models, modelCounter, elementDataMap, elementMeshMap, storeys, loads,
               manualOverrides, storage>>

\* The Reclassify button
ReclassifyAll ==
  /\ models # <<>>
  /\ classifications' = classifyAllElements(elementDataMap, manualOverrides)
  /\ pinned' = Settled(pinned)
  /\ lastOp' = Op("classifyAllElements", Null, Null, "")
  /\ UNCHANGED probe
  /\ completion' = Ended(classifyAllElementsRaises(elementDataMap, manualOverrides), FALSE)
  /\ writes' = 0
  /\ UNCHANGED <<models, modelCounter, elementDataMap, elementMeshMap, storeys, loads,
               manualOverrides, storage>>

\* manualOverrides after setManualClassification(compositeKey, l3Code)
setManualOverrides(overrides, compositeKey, l3Code) ==
  IF l3Code # Null /\ l3Code # <<>> /\ L3_LABELS(l3Code)
  THEN MapSet(overrides, compositeKey, l3Code)
  ELSE IF l3Code = Null THEN MapDelete(overrides, compositeKey)
  ELSE overrides

\* Whether the re-classification of setManualClassification(compositeKey, null)
\* raises, which ends the handler before saveOverrides
setManualRaises(dataMap, compositeKey, l3Code) ==
  /\ l3Code = Null
  /\ MapHas(dataMap, compositeKey)
  /\ ClassifyRaisesOf[elementData(MapGet(dataMap, compositeKey))]

\* classifications after setManualClassification(compositeKey, l3Code)
setManualRecord(cls, dataMap, compositeKey, l3Code) ==
  IF l3Code # Null /\ l3Code # <<>> /\ L3_LABELS(l3Code)
  THEN Put(cls, compositeKey, Record(l3Code, "manual", 100))
  ELSE IF setManualRaises(dataMap, compositeKey, l3Code) THEN cls
  ELSE IF l3Code = Null /\ MapHas(dataMap, compositeKey)
  THEN Put(cls, compositeKey, ReclassifyOf[elementData(MapGet(dataMap, compositeKey))])
  ELSE cls

SetManualClassification(compositeKey, l3Code, setItemOk) ==
  /\ LET overrides == setManualOverrides(manualOverrides, compositeKey, l3Code)
         p == Settled(pinned)
         sk == toStableKey(models, compositeKey)
     IN /\ Len(overrides) =< MaxOverrides \/ Len(overrides) =< Len(manualOverrides)
        /\ manualOverrides' = overrides
        /\ classifications' = setManualRecord(classifications, elementDataMap,
                                              compositeKey, l3Code)
        /\ IF setManualRaises(elementDataMap, compositeKey, l3Code)
           THEN /\ UNCHANGED storage
                /\ pinned' = p
                /\ completion' = Ended(TRUE, FALSE)
                /\ writes' = 0
           ELSE /\ storage' = saveOverrides(models, overrides, storage, setItemOk)
                /\ pinned' = IF /\ p.stage = "none" /\ sk = Followed
                                /\ l3Code \in ALL_L3_CODES /\ setItemOk
                             THEN PinFor(models, compositeKey, l3Code)
                             ELSE PinAfterSave(p, overrides # manualOverrides
                                                  /\ sk = PinKey(p))
                /\ completion' = Ended(saveOverridesRaises(setItemOk), setItemOk)
                /\ writes' = 1
  /\ lastOp' = Op("setManualClassification", compositeKey, l3Code, "")
  /\ UNCHANGED probe
  /\ UNCHANGED <<models, modelCounter, elementDataMap, elementMeshMap, storeys, loads>>

\* The loop of bulkAssignByType over elementDataMap
RECURSIVE bulkLoop(_, _, _, _)
bulkLoop(st, entries, ifcType, l3Code) ==
  IF entries = <<>> THEN st
  ELSE LET key == Head(entries).key
           hit == /\ elementData(Head(entries).val).ifcType = ifcType
                  /\ l3Code # Null /\ l3Code # <<>> /\ L3_LABELS(l3Code)
       IN bulkLoop(IF hit
                   THEN [overrides |-> MapSet(st.overrides, key, l3Code),
                         cls |-> Put(st.cls, key, Record(l3Code, "manual", 100)),
                         saves |-> st.saves]
                   ELSE st,
                   Tail(entries), ifcType, l3Code)

\* Variant of bulkAssign that saves once per assigned element
bulkAssignSavingEach(st, entries, ifcType, l3Code) ==
  LET after == bulkLoop(st, entries, ifcType, l3Code)
      hits == SelectSeq(entries, LAMBDA e : elementData(e.val).ifcType = ifcType)
  IN [after EXCEPT !.saves = @ + Len(hits)]

\* bulkAssignByType: the loop, then the single saveOverrides
bulkAssign(st, entries, ifcType, l3Code) ==
  LET after == bulkLoop(st, entries, ifcType, l3Code)
  IN [after EXCEPT !.saves = @ + 1]

BulkAssignByType(ifcType, l3Code, setItemOk) ==
  /\ models # <<>>
  /\ LET st == bulkAssign([overrides |-> manualOverrides, cls |-> classifications,
                           saves |-> 0],
                          elementDataMap, ifcType, l3Code)
         p == Settled(pinned)
     IN /\ Len(st.overrides) =< MaxOverrides \/ Len(st.overrides) =< Len(manualOverrides)
        /\ manualOverrides' = st.overrides
        /\ classifications' = st.cls
        /\ storage' = IF st.saves > 0
                      THEN saveOverrides(models, st.overrides, storage, setItemOk)
                      ELSE storage
        /\ writes' = st.saves
        /\ pinned' = PinAfterSave(p,
                         /\ \E i \in 1..Len(elementDataMap) :
                              /\ elementData(elementDataMap[i].val).ifcType = ifcType
                              /\ toStableKey(models, elementDataMap[i].key) = PinKey(p)
                         /\ st.overrides # manualOverrides)
  /\ lastOp' = Op("bulkAssignByType", Null, l3Code, ifcType)
  /\ UNCHANGED probe
  /\ completion' = Ended(saveOverridesRaises(setItemOk), setItemOk)
  /\ UNCHANGED <<models, modelCounter, elementDataMap, elementMeshMap, storeys, loads>>

\* importOverridesFromFile, once the file is read
ImportOverridesFromFile(data, setItemOk) ==
  /\ models # <<>>
  /\ LET overrides == applyEntries(models, manualOverrides, data)
         p == Settled(pinned)
     IN /\ Len(overrides) =< MaxOverrides \/ Len(overrides) =< Len(manualOverrides)
        /\ manualOverrides' = overrides
        /\ classifications' = classifyAllElements(elementDataMap, overrides)
        /\ IF classifyAllElementsRaises(elementDataMap, overrides)
           THEN \* the handler's catch: "Import failed", saveOverrides is not reached
                /\ UNCHANGED storage
                /\ pinned' = p
                /\ completion' = Ended(FALSE, FALSE)
                /\ writes' = 0
           ELSE /\ storage' = saveOverrides(models, overrides, storage, setItemOk)
                /\ pinned' = PinAfterSave(p,
                                 /\ \E i \in 1..Len(data) : data[i].key = PinKey(p)
                                 /\ overrides # manualOverrides)
                /\ completion' = Ended(saveOverridesRaises(setItemOk), setItemOk)
                /\ writes' = 1
  /\ lastOp' = Op("importOverridesFromFile", Null, Null, "")
  /\ UNCHANGED probe
  /\ UNCHANGED <<models, modelCounter, elementDataMap, elementMeshMap, storeys, loads>>

Next ==
  \/ \E files \in FileLists, append \in BOOLEAN : LoadIFCFiles(files, append)
  \/ ClearAllModels
  \/ \E i \in 1..Len(models) : RemoveModel(models[i].idx)
  \/ ReloadPage
  \/ ReclassifyAll
  \/ \E k \in MapKeys(elementDataMap), c \in CodeInputs \cup {Null}, ok \in SetItemOutcomes :
       SetManualClassification(k, c, ok)
  \/ \E t \in IfcTypes, c \in CodeInputs, ok \in SetItemOutcomes : BulkAssignByType(t, c, ok)
  \/ \E d \in ImportFiles, ok \in SetItemOutcomes : ImportOverridesFromFile(d, ok)

Spec == Init /\ [][Next]_vars

\* ======================== A STORE THAT REFUSES WRITES ========================
\* The handlers with a localStorage whose setItem may throw (quota exceeded,
\* storage disabled) at any call
NextStorageFailure ==
  \/ LoadIFCFiles(<< <<"A", ".", "i", "f", "c">> >>, FALSE)
  \/ \E k \in MapKeys(elementDataMap), c \in {<<"B", "2", "0", "3", "0">>, <<"Z", "9", "9", "9", "9">>, Null}, ok \in BOOLEAN :
       SetManualClassification(k, c, ok)
  \/ \E t \in IfcTypes, c \in {<<"B", "2", "0", "3", "0">>, <<"Z", "9", "9", "9", "9">>}, ok \in BOOLEAN :
       BulkAssignByType(t, c, ok)

SpecStorageFailure == Init /\ [][NextStorageFailure]_vars

\* ======================== A FILE WITH A MALFORMED ELEMENT ========================
\* The handlers that classify, with the malformed file among those loaded
NextMalformed ==
  \/ \E n \in MalformedFileNames \cup {<<"A", ".", "i", "f", "c">>}, append \in BOOLEAN :
       LoadIFCFiles(<<n>>, append)
  \/ ReclassifyAll
  \/ \E k \in MapKeys(elementDataMap), c \in {<<"B", "2", "0", "3", "0">>, Null} :
       SetManualClassification(k, c, TRUE)
  \/ \E d \in ImportFiles : ImportOverridesFromFile(d, TRUE)

SpecMalformed == Init /\ [][NextMalformed]_vars

\* ======================== LOADS THAT YIELD ========================
\* loadIFCFiles is async: it returns to the event loop at every await
\* yieldToUI(), and the handlers of the page run between two of its stretches.
\* Calls of loadIFCFiles that can be in progress at once
MaxLoads == 2

\* A call of loadIFCFiles waiting at an await: its files, the file it is at
\* (f), the await it waits at (pc), and its locals idx and elementCount
Task(files) == [files |-> files, f |-> 1, pc |-> "parse", idx |-> 0, elementCount |-> 0]

\* Files of the calls in progress that have no index yet
RECURSIVE Unindexed(_)
Unindexed(tasks) ==
  IF tasks = <<>> THEN 0
  ELSE LET t == Head(tasks)
       IN (Len(t.files) - t.f) + (IF t.pc = "parse" THEN 1 ELSE 0) + Unindexed(Tail(tasks))

\* loadGeometry: StreamAllMeshes sets a mesh per element in elementMeshMap
RECURSIVE loadGeometry(_, _, _, _)
loadGeometry(meshMap, modelIdx, file, elements) ==
  IF elements = <<>> THEN meshMap
  ELSE LET e == Head(elements)
           mesh == [file |-> file, expressID |-> e.expressID, modelIdx |-> modelIdx]
       IN loadGeometry(MapSet(meshMap, makeKey(modelIdx, e.expressID), mesh),
                       modelIdx, file, Tail(elements))

\* extractProperties as it reads elementMeshMap: an entry of elementDataMap per
\* mesh whose key starts with the model's prefix
RECURSIVE extractPropertiesOfMeshes(_, _, _)
extractPropertiesOfMeshes(dataMap, meshes, prefix) ==
  IF meshes = <<>> THEN dataMap
  ELSE extractPropertiesOfMeshes(
         IF startsWith(Head(meshes).key, prefix)
         THEN MapSet(dataMap, Head(meshes).key, Head(meshes).val) ELSE dataMap,
         Tail(meshes), prefix)

\* What no stretch of a load touches
UniformatUntouched ==
  /\ UNCHANGED <<classifications, manualOverrides, storage, probe>>
  /\ pinned' = Settled(pinned)
  /\ completion' = Ended(FALSE, FALSE)
  /\ writes' = 0

\* loadIFCFiles(files, append) up to its first await: clearAllModels(true)
\* unless appending
BeginLoad(files, append) ==
  /\ Len(loads) < MaxLoads
  /\ modelCounter + Unindexed(loads) + Len(files) =< MaxModels
  /\ IF append
     THEN UNCHANGED <<models, elementDataMap, elementMeshMap, storeys>>
     ELSE /\ models' = <<>>
          /\ elementDataMap' = <<>>
          /\ elementMeshMap' = <<>>
          /\ storeys' = <<>>
  /\ loads' = Append(loads, Task(files))
  /\ lastOp' = Op("loadIFCFiles:await", Null, Null, "")
  /\ UNCHANGED modelCounter
  /\ UniformatUntouched

\* idx = modelCounter++, OpenModel, detectUnits, up to the next await
ParseFile(i) ==
  /\ loads[i].pc = "parse"
  /\ modelCounter' = modelCounter + 1
  /\ loads' = [loads EXCEPT ![i].idx = modelCounter, ![i].pc = "storeys"]
  /\ lastOp' = Op("loadIFCFiles:await", Null, Null, "")
  /\ UNCHANGED <<models, elementDataMap, elementMeshMap, storeys>>
  /\ UniformatUntouched

\* extractStoreys and buildSpatialMap, up to the next await
ExtractSpatial(i) ==
  /\ loads[i].pc = "storeys"
  /\ storeys' = extractStoreys(storeys, loads[i].idx,
                               StoreysOfFile(loads[i].files[loads[i].f]), 1)
  /\ loads' = [loads EXCEPT ![i].pc = "geometry"]
  /\ lastOp' = Op("loadIFCFiles:await", Null, Null, "")
  /\ UNCHANGED <<models, modelCounter, elementDataMap, elementMeshMap>>
  /\ UniformatUntouched

\* loadGeometry, up to the next await
LoadGeometry(i) ==
  /\ loads[i].pc = "geometry"
  /\ LET name == loads[i].files[loads[i].f]
     IN /\ elementMeshMap' = loadGeometry(elementMeshMap, loads[i].idx, name, IfcFile(name))
        /\ loads' = [loads EXCEPT ![i].elementCount = Len(IfcFile(name)),
                                  ![i].pc = "properties"]
  /\ lastOp' = Op("loadIFCFiles:await", Null, Null, "")
  /\ UNCHANGED <<models, modelCounter, elementDataMap, storeys>>
  /\ UniformatUntouched

\* extractProperties and models.push; then the next file up to its first
\* await, or the end of loadIFCFiles with its refresh
ExtractProperties(i) ==
  /\ loads[i].pc = "properties"
  /\ LET t == loads[i]
         name == t.files[t.f]
         modelEntry == [idx |-> t.idx,
                        filename |-> replaceFirst(name, <<".", "i", "f", "c">>, <<>>),
                        elementCount |-> t.elementCount]
         dataMap == extractPropertiesOfMeshes(elementDataMap, elementMeshMap,
                                              NatToStr(t.idx) \o <<":">>)
         ms == Append(models, modelEntry)
     IN /\ elementDataMap' = dataMap
        /\ models' = ms
        /\ IF t.f < Len(t.files)
           THEN /\ loads' = [loads EXCEPT ![i].f = t.f + 1, ![i].pc = "parse"]
                /\ lastOp' = Op("loadIFCFiles:await", Null, Null, "")
                /\ UniformatUntouched
           ELSE /\ loads' = [j \in 1..(Len(loads) - 1) |->
                               IF j < i THEN loads[j] ELSE loads[j + 1]]
                /\ lastOp' = Op("loadIFCFiles", Null, Null, "")
                /\ InitUniformatPanel(ms, dataMap)
                /\ pinned' = PinAfterLoad(Settled(pinned), ms)
                /\ completion' = Ended(classifyAllElementsRaises(dataMap, manualOverrides'),
                                       FALSE)
                /\ writes' = 0
                /\ UNCHANGED <<storage, probe>>
  /\ UNCHANGED <<modelCounter, elementMeshMap, storeys>>

NextInterleaved ==
  \/ \E files \in FileLists, append \in BOOLEAN : BeginLoad(files, append)
  \/ \E i \in 1..Len(loads) : ParseFile(i)
  \/ \E i \in 1..Len(loads) : ExtractSpatial(i)
  \/ \E i \in 1..Len(loads) : LoadGeometry(i)
  \/ \E i \in 1..Len(loads) : ExtractProperties(i)
  \/ ClearAllModels
  \/ \E i \in 1..Len(models) : RemoveModel(models[i].idx)

SpecInterleaved == Init /\ [][NextInterleaved]_vars

\* ======================== THE CASCADE ON ITS OWN ========================
\* The viewer with no file loaded, which the calls below leave as it is
ViewerAtStart ==
  /\ models = <<>>
  /\ modelCounter = 0
  /\ elementDataMap = <<>>
  /\ elementMeshMap = <<>>
  /\ storeys = <<>>
  /\ loads = <<>>
  /\ classifications = EmptyMap
  /\ manualOverrides = <<>>
  /\ storage = NoItem
  /\ lastOp = Op("start", Null, Null, "")
  /\ writes = 0
  /\ pinned = NoPin
  /\ completion = Ended(FALSE, FALSE)

ViewerUntouched ==
  UNCHANGED <<models, modelCounter, elementDataMap, elementMeshMap, storeys, loads,
              classifications, manualOverrides,
              storage, lastOp, writes, pinned, completion>>

\* A call that has not returned yet, and the call once it has
Call(fn, input) == [fn |-> fn, input |-> input, done |-> FALSE, output |-> Null]
Return(call, output) == [call EXCEPT !.done = TRUE, !.output = output]

\* Element data extractProperties can store: types of the five families of
\* contextAwareMap and two outside them, names and storeys with and without
\* the substrings it looks for, an is-external property in every encoding it
\* reads and one it does not, a classification property with good and bad values
CascadeTypes ==
  {"IFCWALL", "IFCWALLSTANDARDCASE", "IFCDOOR", "IFCWINDOW", "IFCSLAB", "IFCFOOTING",
   "IFCBEAM", "IFCBUILDINGELEMENTPROXY"}

CascadeNames == { <<"U", "n", "n", "a", "m", "e", "d">>, <<"I", "n", "t", "e", "r", "i", "o", "r", " ", "P", "a", "r", "t", "i", "t", "i", "o", "n">>, <<"P", "i", "l", "e", " ", "o", "n", " ", "G", "r", "a", "d", "e">> }

CascadeStoreys == { <<"L", "e", "v", "e", "l", " ", "1">>, <<"B", "a", "s", "e", "m", "e", "n", "t">>, <<"R", "o", "o", "f">> }

IsExternalProps ==
  { <<>> } \cup
  { << Prop(<<"P", "s", "e", "t", "_", "W", "a", "l", "l", "C", "o", "m", "m", "o", "n", ".", "I", "s", "E", "x", "t", "e", "r", "n", "a", "l">>, v) >> :
      v \in { Bool(FALSE), Str(<<"F", "a", "l", "s", "e">>), Str(<<".", "F", ".">>), Num(0),
              Bool(TRUE), Str(<<"n", "o">>) } }

ClassificationProps ==
  { <<>>,
    << Prop(<<"D", "a", "t", "a", ".", "M", "a", "r", "k">>, Str(<<"D", "5", "0", "1", "0">>)) >>,
    << Prop(<<"D", "a", "t", "a", ".", "A", "s", "s", "e", "m", "b", "l", "y", " ", "C", "o", "d", "e">>, Str(<<"B", "2", "O", "1", "0">>)),
       Prop(<<"I", "d", "e", "n", "t", "i", "t", "y", ".", "U", "N", "I", "F", "O", "R", "M", "A", "T", " ", "I", "I">>, Str(<<" ", "C", "-", "1", "0", " ", "1", "0", " ">>)) >> } \cup
  { << Prop(<<"D", "a", "t", "a", ".", "A", "s", "s", "e", "m", "b", "l", "y", " ", "C", "o", "d", "e">>, v) >> :
      v \in { Str(<<"B", "2", "0", ".", "1", "0">>), Str(<<"B", "2", "O", "1", "0">>), Str(<<"B", "9", "9", "9", "9">>), Str(<<"b", "2", "0", "1", "0">>),
              Num(2010) } }

CascadeInputs ==
  { [ifcType |-> t, name |-> n, storey |-> st, props |-> c \o x] :
      t \in CascadeTypes, n \in CascadeNames, st \in CascadeStoreys,
      c \in ClassificationProps, x \in IsExternalProps }

InitCascade ==
  /\ ViewerAtStart
  /\ \E data \in CascadeInputs : probe = Call("classify", data)

\* One iteration of the loop of classifyAllElements for an element without
\* manual override
ClassifyOne ==
  /\ probe.fn = "classify" /\ ~probe.done
  /\ probe' = Return(probe, [record |-> ClassifyComputed(probe.input),
                             fromProps |-> detectFromProperties(probe.input),
                             contextCode |-> contextAwareMap(probe.input)])
  /\ ViewerUntouched

NextCascade == ClassifyOne

SpecCascade == InitCascade /\ [][NextCascade]_vars

\* ======================== THE QUANTITIES ON THEIR OWN ========================
\* MaxProps: the largest number of properties in a bag
MaxProps == 3

\* Properties extractProperties can store, in tenths of a unit: net and gross
\* quantities of known sets, dimension names in unknown sets, names without
\* dimension keyword, a string, a zero and a negative value
QuantityProps ==
  << Prop(<<"B", "a", "s", "e", "Q", "u", "a", "n", "t", "i", "t", "i", "e", "s", ".", "N", "e", "t", "V", "o", "l", "u", "m", "e">>, Num(25)),
     Prop(<<"B", "a", "s", "e", "Q", "u", "a", "n", "t", "i", "t", "i", "e", "s", ".", "G", "r", "o", "s", "s", "V", "o", "l", "u", "m", "e">>, Num(30)),
     Prop(<<"Q", "t", "o", "_", "W", "a", "l", "l", "B", "a", "s", "e", "Q", "u", "a", "n", "t", "i", "t", "i", "e", "s", ".", "N", "e", "t", "V", "o", "l", "u", "m", "e">>, Num(40)),
     Prop(<<"D", "i", "m", "e", "n", "s", "i", "o", "n", "s", ".", "A", "r", "e", "a">>, Num(120)),
     Prop(<<"C", "u", "s", "t", "o", "m", ".", "A", "r", "e", "a">>, Num(70)),
     Prop(<<"C", "u", "s", "t", "o", "m", ".", "G", "r", "o", "s", "s", "S", "i", "d", "e", "A", "r", "e", "a">>, Num(50)),
     Prop(<<"C", "u", "s", "t", "o", "m", ".", "M", "a", "r", "k">>, Num(5)),
     Prop(<<"B", "a", "s", "e", "Q", "u", "a", "n", "t", "i", "t", "i", "e", "s", ".", "M", "a", "r", "k">>, Num(9)),
     Prop(<<"C", "u", "s", "t", "o", "m", ".", "L", "e", "n", "g", "t", "h">>, Str(<<"3", ".", "5">>)),
     Prop(<<"C", "u", "s", "t", "o", "m", ".", "W", "i", "d", "t", "h">>, Num(0)),
     Prop(<<"C", "u", "s", "t", "o", "m", ".", "H", "e", "i", "g", "h", "t">>, Num(0 - 2)),
     Prop(<<"C", "u", "s", "t", "o", "m", ".", "C", "o", "u", "n", "t">>, Num(4)) >>

\* The bags of at most MaxProps of them, in the order above
QuantityBags ==
  { [i \in 1..Cardinality(S) |->
       QuantityProps[CHOOSE k \in S : Cardinality({j \in S : j < k}) = i - 1]] :
      S \in { T \in SUBSET (1..Len(QuantityProps)) : Cardinality(T) =< MaxProps } }

QuantityInputs ==
  { [ifcType |-> "IFCWALL"] } \cup { [ifcType |-> "IFCWALL", props |-> b] : b \in QuantityBags }

InitQuantities ==
  /\ ViewerAtStart
  /\ \E data \in QuantityInputs : probe = Call("extractQuantities", data)

\* extractQuantities(data.props), as aggregateSpatial and aggregateUniformat call it
ExtractOne ==
  /\ probe.fn = "extractQuantities" /\ ~probe.done
  /\ probe' = Return(probe, extractQuantitiesOfData(probe.input))
  /\ ViewerUntouched

NextQuantities == ExtractOne

SpecQuantities == InitQuantities /\ [][NextQuantities]_vars

\* ======================== THE ORDER OF THE STOREY ROWS ========================
\* Numbers of the comparator: a finite number, -Infinity, +Infinity or NaN
Finite(n) == [kind |-> "finite", n |-> n]
MinusInfinity == [kind |-> "-Infinity", n |-> 0]
PlusInfinity == [kind |-> "+Infinity", n |-> 0]
NotANumber == [kind |-> "NaN", n |-> 0]

\* a - b on such numbers
Minus(a, b) ==
  IF a.kind = "finite" /\ b.kind = "finite" THEN Finite(a.n - b.n)
  ELSE IF a.kind = "NaN" \/ b.kind = "NaN" \/ a.kind = b.kind THEN NotANumber
  ELSE IF a.kind = "-Infinity" \/ b.kind = "+Infinity" THEN MinusInfinity
  ELSE PlusInfinity

\* storeys[a]?.elevation ?? -Infinity: the entry's property named elevation,
\* -Infinity when there is no entry or the entry has no such property
elevationOrMinusInfinity(sts, a) ==
  IF MapHas(sts, a) /\ "elevation" \in DOMAIN MapGet(sts, a)
  THEN Finite(MapGet(sts, a).elevation)
  ELSE MinusInfinity

\* The comparator of buildSpatialEstimate: eb - ea
compareStoreys(sts, a, b) ==
  Minus(elevationOrMinusInfinity(sts, b), elevationOrMinusInfinity(sts, a))

\* Whether Array.prototype.sort puts a after b for a comparator result v:
\* v > 0; NaN counts as +0
SortsAfter(v) == v.kind = "+Infinity" \/ (v.kind = "finite" /\ v.n > 0)

\* Array.prototype.sort, which is stable: each name goes behind the names
\* already placed that the comparator does not put after it
RECURSIVE sortedInsert(_, _, _)
sortedInsert(sts, placed, x) ==
  IF placed = <<>> THEN <<x>>
  ELSE IF SortsAfter(compareStoreys(sts, placed[Len(placed)], x))
  THEN Append(sortedInsert(sts, SubSeq(placed, 1, Len(placed) - 1), x), placed[Len(placed)])
  ELSE Append(placed, x)

RECURSIVE sortStoreys(_, _, _)
sortStoreys(sts, placed, names) ==
  IF names = <<>> THEN placed
  ELSE sortStoreys(sts, sortedInsert(sts, placed, Head(names)), Tail(names))

\* storeyNames of buildSpatialEstimate, for the keys of the tree in the order
\* aggregateSpatial created them
storeyNames(sts, treeKeys) == sortStoreys(sts, <<>>, treeKeys)

\* The storeys of a file: three levels, each at one of three elevations (metres)
StoreyElevations == {0, 3, 6}

StoreyLines ==
  { << [Name |-> <<"L", "e", "v", "e", "l", " ", "1">>, Elevation |-> e1, expressID |-> 11],
       [Name |-> <<"L", "e", "v", "e", "l", " ", "2">>, Elevation |-> e2, expressID |-> 12],
       [Name |-> <<"L", "e", "v", "e", "l", " ", "3">>, Elevation |-> e3, expressID |-> 13] >> :
      e1 \in StoreyElevations, e2 \in StoreyElevations, e3 \in StoreyElevations }

\* The keys of the tree: the storeys of the elements in the order the elements
\* come, with the container of the elements without storey
TreeStoreys == { <<"L", "e", "v", "e", "l", " ", "1">>, <<"L", "e", "v", "e", "l", " ", "2">>, <<"L", "e", "v", "e", "l", " ", "3">>, <<"U", "n", "a", "s", "s", "i", "g", "n", "e", "d">> }

TreeKeyOrders ==
  { o \in [1..Cardinality(TreeStoreys) -> TreeStoreys] :
      \A i, j \in DOMAIN o : i # j => o[i] # o[j] }

InitStoreyOrder ==
  /\ ViewerAtStart
  /\ \E lines \in StoreyLines, keys \in TreeKeyOrders :
       probe = Call("buildSpatialEstimate",
                    [storeys |-> extractStoreys(<<>>, 0, lines, 1), treeKeys |-> keys])

\* The sort at the head of buildSpatialEstimate
SortStoreyRows ==
  /\ probe.fn = "buildSpatialEstimate" /\ ~probe.done
  /\ probe' = Return(probe, storeyNames(probe.input.storeys, probe.input.treeKeys))
  /\ ViewerUntouched

NextStoreyOrder == SortStoreyRows

SpecStoreyOrder == InitStoreyOrder /\ [][NextStoreyOrder]_vars

\* ======================== THE SPATIAL TREE ========================
\* Array.prototype.sort with (a, b) => a[1].elevation_m - b[1].elevation_m on
\* the entries of storeys: ascending, entries of equal elevation in their order
RECURSIVE insertByElevation(_, _)
insertByElevation(placed, e) ==
  IF placed = <<>> THEN <<e>>
  ELSE IF Head(placed).val.elevation_m - e.val.elevation_m > 0
       THEN <<e>> \o placed
       ELSE <<Head(placed)>> \o insertByElevation(Tail(placed), e)

RECURSIVE sortByElevation(_, _)
sortByElevation(placed, entries) ==
  IF entries = <<>> THEN placed
  ELSE sortByElevation(insertByElevation(placed, Head(entries)), Tail(entries))

\* Object.keys(grouped[storey]).sort() on the types of the files
SortedTypes == <<"IFCBEAM", "IFCBUILDINGELEMENTPROXY", "IFCWALL">>

\* grouped[storey][type]: the keys of the elements of that storey and type
grouped(dataMap, storey, type) ==
  LET hits == SelectSeq(dataMap, LAMBDA e : /\ elementData(e.val).storey = storey
                                            /\ elementData(e.val).ifcType = type)
  IN [i \in 1..Len(hits) |-> hits[i].key]

\* The type nodes under one storey node
RECURSIVE typeNodes(_, _, _)
typeNodes(dataMap, storey, types) ==
  IF types = <<>> THEN <<>>
  ELSE LET elems == grouped(dataMap, storey, Head(types))
       IN (IF elems = <<>> THEN <<>> ELSE <<[type |-> Head(types), elems |-> elems]>>)
            \o typeNodes(dataMap, storey, Tail(types))

\* The loop of buildSpatialTree over order: a node per name that has elements
RECURSIVE storeyNodes(_, _)
storeyNodes(dataMap, order) ==
  IF order = <<>> THEN <<>>
  ELSE LET types == typeNodes(dataMap, Head(order), SortedTypes)
       IN (IF types = <<>> THEN <<>> ELSE <<[storey |-> Head(order), types |-> types]>>)
            \o storeyNodes(dataMap, Tail(order))

\* buildSpatialTree: the storey nodes of the tree, each with its type nodes
buildSpatialTree(dataMap, sts) ==
  LET sorted == sortByElevation(<<>>, sts)
      names == [i \in 1..Len(sorted) |-> sorted[i].key]
      order == IF \E i \in 1..Len(dataMap) : elementData(dataMap[i].val).storey = <<"U", "n", "a", "s", "s", "i", "g", "n", "e", "d">>
               THEN Append(names, <<"U", "n", "a", "s", "s", "i", "g", "n", "e", "d">>) ELSE names
  IN storeyNodes(dataMap, order)

\* ======================== THE ROWS OF THE ESTIMATE ========================
\* Quantities and money of this section are in hundredths (1.0 = 100).
\* The placeholder of an empty cell, the character U+2014, as one element
Placeholder == <<"EM DASH">>

\* n as decimal digits, at least width of them
RECURSIVE PadDigits(_, _)
PadDigits(n, width) ==
  IF width =< 1 /\ n < 10 THEN <<Digits[n + 1]>>
  ELSE PadDigits(n \div 10, width - 1) \o <<Digits[(n % 10) + 1]>>

\* Number.prototype.toLocaleString of a whole number: groups of three digits
RECURSIVE toLocaleString(_)
toLocaleString(n) ==
  IF n < 1000 THEN NatToStr(n)
  ELSE toLocaleString(n \div 1000) \o <<",">> \o PadDigits(n % 1000, 3)

\* Math.round of a value in hundredths, as a whole number
MathRound(val) == (val + 50) \div 100

\* val.toFixed(1) and val.toFixed(2) of a value in hundredths
toFixed1(val) ==
  LET tenths == (val + 5) \div 10
  IN NatToStr(tenths \div 10) \o <<".">> \o PadDigits(tenths % 10, 1)
toFixed2(val) == NatToStr(val \div 100) \o <<".">> \o PadDigits(val % 100, 2)

\* fmtQty(val)
fmtQty(val) ==
  IF val = 0 THEN Placeholder
  ELSE IF val >= 100000000
    THEN LET tenthsOfMillions == (val + 5000000) \div 10000000
         IN NatToStr(tenthsOfMillions \div 10) \o <<".">>
              \o PadDigits(tenthsOfMillions % 10, 1) \o <<"M">>
  ELSE IF val >= 1000000 THEN toLocaleString(MathRound(val))
  ELSE IF val >= 10000 THEN toLocaleString(MathRound(val))
  ELSE IF val >= 100 THEN toFixed1(val)
  ELSE toFixed2(val)

\* fmtCount(n) of a whole number n
fmtCount(n) == IF n = 0 THEN Placeholder ELSE toLocaleString(n)

\* primaryUnit(agg)
primaryUnit(agg) ==
  IF agg.sf > 0 THEN "sf"
  ELSE IF agg.lf > 0 THEN "lf"
  ELSE IF agg.cy > 0 THEN "cy"
  ELSE "ea"

\* primaryQty(agg, unit): agg[unit] || agg.ea
primaryQty(agg, unit) == IF agg[unit] # 0 THEN agg[unit] ELSE agg.ea

\* No entry of costRates for a row, and the entry setRowCost writes
NoRate == [set |-> FALSE, unitCost |-> 0, unit |-> "ea"]
Rate(unitCost, unit) == [set |-> TRUE, unitCost |-> unitCost, unit |-> unit]

\* One item row of buildUniformatEstimate and buildSpatialEstimate: the unit
\* selected, the quantity cell and the line total (unit cost in whole dollars)
renderRow(row) ==
  LET pUnit == IF row.rate.set THEN row.rate.unit ELSE primaryUnit(row.agg)
      qty == primaryQty(row.agg, pUnit)
      unitCost == IF row.rate.set THEN row.rate.unitCost ELSE 0
  IN [pUnit |-> pUnit, qty |-> qty, qtyCell |-> fmtQty(qty), lineCost |-> qty * unitCost]

\* The rows of one section and the section's total: total += lineCost per row
RECURSIVE renderSection(_, _)
renderSection(rows, acc) ==
  IF rows = <<>> THEN acc
  ELSE LET r == renderRow(Head(rows))
       IN renderSection(Tail(rows),
                        [rows |-> Append(acc.rows, r), total |-> acc.total + r.lineCost])

\* Aggregates of a row: one or two elements, each quantity zero or not, with
\* values for every branch of fmtQty
RowAggs ==
  { [ea |-> ea, sf |-> sf, lf |-> lf, cy |-> cy] :
      ea \in {100, 200}, sf \in {0, 250, 12345678}, lf \in {0, 50},
      cy \in {0, 4000, 150000000} }

\* The entries costRates can hold for a row: none, or what setRowCost wrote
\* from the cost input and the unit select
RowRates ==
  { NoRate } \cup { Rate(c, u) : c \in {0, 3}, u \in {"ea", "sf", "lf", "cy"} }

\* Sections checked: every single row, and every row followed by one of a few
SecondRows ==
  { [agg |-> [ea |-> 100, sf |-> 0, lf |-> 0, cy |-> 0], rate |-> Rate(3, "sf")],
    [agg |-> [ea |-> 200, sf |-> 250, lf |-> 0, cy |-> 4000], rate |-> Rate(3, "cy")] }

Sections ==
  { <<[agg |-> a, rate |-> r]>> : a \in RowAggs, r \in RowRates } \cup
  { <<[agg |-> a, rate |-> r], second>> :
      a \in RowAggs, r \in RowRates, second \in SecondRows }

InitEstimate ==
  /\ ViewerAtStart
  /\ \E rows \in Sections : probe = Call("buildEstimate", rows)

\* The row loop of one section of the estimate table
RenderSection ==
  /\ probe.fn = "buildEstimate" /\ ~probe.done
  /\ probe' = Return(probe, renderSection(probe.input, [rows |-> <<>>, total |-> 0]))
  /\ ViewerUntouched

NextEstimate == RenderSection

SpecEstimate == InitEstimate /\ [][NextEstimate]_vars

\* ======================== PRODUCTION TRACKING: EXPORT AND IMPORT ========================
\* fileMap[filename] after "for (const m of models) fileMap[m.filename] = m.idx":
\* the index of the last model with that filename, -1 for undefined
fileMap(ms, filename) ==
  IF \E i \in 1..Len(ms) : ms[i].filename = filename
  THEN ms[CHOOSE i \in 1..Len(ms) :
            ms[i].filename = filename /\ \A j \in (i + 1)..Len(ms) : ms[j].filename # filename].idx
  ELSE -1

\* exportToJSON: a record per entry of installationMap whose element is in the store
RECURSIVE exportToJSON(_, _, _)
exportToJSON(ms, dataMap, installationMap) ==
  IF installationMap = <<>> THEN <<>>
  ELSE LET key == Head(installationMap).key
           entry == Head(installationMap).val
           rest == exportToJSON(ms, dataMap, Tail(installationMap))
       IN IF ~MapHas(dataMap, key) THEN rest
          ELSE LET i == findByIdx(ms, MapGet(dataMap, key).modelIdx)
               IN << [compositeKey |-> key,
                      model |-> IF i = 0 THEN <<>> ELSE ms[i].filename,
                      installed |-> entry.installed,
                      date |-> entry.date] >> \o rest

\* The loop of importFromJSON over data.records
RECURSIVE importRecords(_, _, _, _)
importRecords(ms, dataMap, installationMap, records) ==
  IF records = <<>> THEN installationMap
  ELSE LET rec == Head(records)
           idx == fileMap(ms, rec.model)
           key == IF ~MapHas(dataMap, rec.compositeKey) /\ rec.model # <<>> /\ idx # -1
                  THEN NatToStr(idx) \o <<":">> \o split(rec.compositeKey, <<":">>)[2]
                  ELSE rec.compositeKey
       IN importRecords(ms, dataMap,
                        IF MapHas(dataMap, key) /\ rec.installed
                        THEN MapSet(installationMap, key, [installed |-> TRUE, date |-> rec.date])
                        ELSE installationMap,
                        Tail(records))

\* saveToLocalStorage: the object written under prod_installation_data
RECURSIVE persistData(_, _, _, _)
persistData(ms, dataMap, installationMap, data) ==
  IF installationMap = <<>> THEN data
  ELSE LET key == Head(installationMap).key
           i == IF MapHas(dataMap, key) THEN findByIdx(ms, MapGet(dataMap, key).modelIdx) ELSE 0
       IN persistData(ms, dataMap, Tail(installationMap),
                      IF i = 0 THEN data
                      ELSE MapSet(data, ms[i].filename \o <<":">> \o split(key, <<":">>)[2],
                                  Head(installationMap).val))

\* The files of a page session, loaded in one loadIFCFiles or one after another
SessionFiles == { << <<"A", ".", "i", "f", "c">> >>, << <<"B", ".", "i", "f", "c">> >>,
                  << <<"A", ".", "i", "f", "c">>, <<"B", ".", "i", "f", "c">> >>, << <<"B", ".", "i", "f", "c">>, <<"A", ".", "i", "f", "c">> >> }

\* The viewer of a session once its files are loaded
Session(files) == loadLoop(Viewer(<<>>, 0, <<>>), files)

\* The elements marked installed in a session, on one day
InstallDate == <<"2", "0", "2", "4", "-", "0", "5", "-", "0", "1">>

Installed(dataMap, keys) ==
  LET hits == SelectSeq(dataMap, LAMBDA e : e.key \in keys)
  IN [i \in 1..Len(hits) |-> [key |-> hits[i].key,
                              val |-> [installed |-> TRUE, date |-> InstallDate]]]

\* A file exported in an earlier session is imported into the present one
InitProduction ==
  /\ ViewerAtStart
  /\ \E earlier \in SessionFiles, present \in SessionFiles :
       \E keys \in (SUBSET MapKeys(Session(earlier).elementDataMap)) \ {{}} :
         LET e == Session(earlier)
             v == Session(present)
         IN probe = Call("importFromJSON",
                         [models |-> v.models, elementDataMap |-> v.elementDataMap,
                          records |-> exportToJSON(e.models, e.elementDataMap,
                                                   Installed(e.elementDataMap, keys))])

\* importFromJSON once the file is read: the records applied to an empty
\* installationMap, then saveToLocalStorage
ImportFromJSON ==
  /\ probe.fn = "importFromJSON" /\ ~probe.done
  /\ LET in == probe.input
         installationMap == importRecords(in.models, in.elementDataMap, <<>>, in.records)
     IN probe' = Return(probe,
                        [installationMap |-> installationMap,
                         saved |-> persistData(in.models, in.elementDataMap,
                                               installationMap, <<>>)])
  /\ ViewerUntouched

NextProduction == ImportFromJSON

SpecProduction == InitProduction /\ [][NextProduction]_vars

\* ======================== PROPERTIES ========================
\* The handlers that end with a run of classifyAllElements over the whole store
ClassifyingOps == {"classifyAllElements", "loadIFCFiles", "removeModel",
                   "importOverridesFromFile"}

\* The data of the element stored under a key of elementDataMap
DataOf(k) == elementData(MapGet(elementDataMap, k))

PinnedKey == NatToStr(models[findByFilename(models, pinned.filename)].idx)
               \o <<":">> \o pinned.eid

\* C2: overrides survive reload. A manual override with code c set on element n
\* of file F, F then unloaded and loaded again: after the initUniformatPanel
\* that follows the load, the element's new composite key carries the record
\* {code: c, source: manual, confidence: 1.0}.
C2_OverrideSurvivesReload ==
  pinned.stage = "reloaded" =>
    /\ PinnedKey \in DOMAIN classifications
    /\ classifications[PinnedKey] = Record(pinned.code, "manual", 100)

\* The file name of a stable key "filename:expressID"
StableKeyFile(stableKey) == substring(stableKey, 0, lastIndexOf(stableKey, <<":">>))

\* C3: a persisted override of a file that is not loaded is only skipped, never
\* lost: no step removes from the persisted store, or changes in it, an entry
\* whose file is not loaded.
C3_UnloadedEntryKept ==
  [][\A i \in 1..Len(storage.data) :
       findByFilename(models, StableKeyFile(storage.data[i].key)) = 0
         => /\ MapHas(storage'.data, storage.data[i].key)
            /\ MapGet(storage'.data, storage.data[i].key) = storage.data[i].val]_vars

\* C4: stable-key round trip. For every composite key of a loaded model,
\* fromStableKey(toStableKey(k)) = k, in every manifest the loader produces.
C4_StableKeyRoundTrip ==
  \A k \in MapKeys(elementDataMap) :
    fromStableKey(models, toStableKey(models, k)) = k

\* C5: re-derivation equivalence. After setManualClassification(k, null) on an
\* element of the store, k's record equals, field for field, the record
\* classifyAllElements computes for k without override.
C5_ClearEqualsClassify ==
  (/\ lastOp.op = "setManualClassification"
   /\ lastOp.code = Null
   /\ MapHas(elementDataMap, lastOp.key))
    => /\ lastOp.key \in DOMAIN classifications
       /\ classifications[lastOp.key] = ClassifyComputedOf[DataOf(lastOp.key)]
       /\ classifications[lastOp.key] =
            classifyAllElements(elementDataMap, manualOverrides)[lastOp.key]

\* setManualClassification(k, null) ran on an element that the cascade
\* classifies by type default or leaves unclassified
C5_Witness ==
  /\ lastOp.op = "setManualClassification"
  /\ lastOp.code = Null
  /\ MapHas(elementDataMap, lastOp.key)
  /\ classifications[lastOp.key].source \in {"none", "auto-mapped"}
  /\ classifications[lastOp.key].confidence \in {0, 50}

\* How often key is listed in a member list
Occurrences(list, key) == Cardinality({i \in 1..Len(list) : list[i] = key})

\* The leaves of a spatial tree (storey/type) and of a classification tree
\* (L3 leaves, then the unclassified bucket), as sequences of aggregates
RECURSIVE Flatten(_)
Flatten(seqs) == IF seqs = <<>> THEN <<>> ELSE Head(seqs) \o Flatten(Tail(seqs))

Values(obj) == [i \in 1..Len(obj) |-> obj[i].val]

SpatialLeaves(r) == Flatten([i \in 1..Len(r.tree) |-> Values(r.tree[i].val.types)])

L2Nodes(r) == Flatten([i \in 1..Len(r.tree) |-> Values(r.tree[i].val.children)])

L3Leaves(r) == Flatten([i \in 1..Len(L2Nodes(r)) |-> Values(L2Nodes(r)[i].children)])

\* Every key of the store is listed once in exactly one of the leaves, and the
\* leaves list nothing else
Partitioned(leaves, keys) ==
  /\ \A k \in keys :
       \E i \in 1..Len(leaves) :
         /\ Occurrences(leaves[i].elements, k) = 1
         /\ \A j \in 1..Len(leaves) : j # i => Occurrences(leaves[j].elements, k) = 0
  /\ \A i \in 1..Len(leaves) : Range(leaves[i].elements) \subseteq keys

\* The element is listed in some L1, L2 or L3 node of the classification tree
InTree(r, k) ==
  \/ \E i \in 1..Len(r.tree) : Occurrences(r.tree[i].val.agg.elements, k) > 0
  \/ \E i \in 1..Len(L2Nodes(r)) : Occurrences(L2Nodes(r)[i].agg.elements, k) > 0
  \/ \E i \in 1..Len(L3Leaves(r)) : Occurrences(L3Leaves(r)[i].elements, k) > 0

Unclassified(k) ==
  k \notin DOMAIN classifications \/ classifications[k].code \in {Null, <<>>}

Columns == {"ea", "sf", "lf", "cy"}

\* The sum of one column over a sequence of aggregates
RECURSIVE SumOver(_, _)
SumOver(aggs, c) == IF aggs = <<>> THEN 0 ELSE Head(aggs)[c] + SumOver(Tail(aggs), c)

Aggs(nodes) == [i \in 1..Len(nodes) |-> nodes[i].val.agg]

C8_BulkAssign ==
  (lastOp.op = "bulkAssignByType" /\ lastOp.code \in ALL_L3_CODES) =>
    /\ \A k \in MapKeys(elementDataMap) :
         DataOf(k).ifcType = lastOp.type =>
           /\ classifications[k] = Record(lastOp.code, "manual", 100)
           /\ MapGet(manualOverrides, k) = lastOp.code
    /\ writes = 1
    /\ storage.present

\* The bulk assignment changed two elements of the type at once
C8_Witness ==
  /\ lastOp.op = "bulkAssignByType"
  /\ lastOp.code \in ALL_L3_CODES
  /\ Cardinality({k \in MapKeys(elementDataMap) : DataOf(k).ifcType = lastOp.type}) = 2
  /\ \A k \in MapKeys(elementDataMap) :
       DataOf(k).ifcType = lastOp.type => ClassifyComputedOf[DataOf(k)].code # lastOp.code
  /\ writes = 1

\* C9: an invalid manual code is rejected. setManualClassification(k, c) with a
\* non-null c that is no known leaf code leaves classifications and
\* manualOverrides as they were, for every key.
C9_InvalidCodeRejected ==
  [][\A k \in MapKeys(elementDataMap), c \in CodeInputs \ ALL_L3_CODES :
       SetManualClassification(k, c, TRUE)
         => UNCHANGED <<classifications, manualOverrides>>]_vars

\* The records the classification engine may store
WellFormed(r) ==
  \/ r.code \in ALL_L3_CODES /\ r.source = "manual" /\ r.confidence = 100
  \/ r.code \in ALL_L3_CODES /\ r.source = "ifc-property" /\ r.confidence = 100
  \/ r.code \in ALL_L3_CODES /\ r.source = "auto-mapped" /\ r.confidence \in {70, 50}
  \/ r.code = Null /\ r.source = "none" /\ r.confidence = 0

\* C10: record well-formedness. Every stored classification record is (known
\* leaf code, manual, 1.0), (known leaf code, explicit property data, 1.0),
\* (known leaf code, heuristic, 0.7), (known leaf code, type default, 0.5) or
\* (null, none, 0); the code is null exactly when the confidence is 0.
C10_RecordsWellFormed ==
  \A k \in DOMAIN classifications :
    /\ WellFormed(classifications[k])
    /\ (classifications[k].code = Null) <=> (classifications[k].confidence = 0)

\* ---------------- the cascade on one element ----------------
\* A call of the cascade that has returned
Classified == probe.fn = "classify" /\ probe.done

\* The type families contextAwareMap has rules for
HeuristicFamilies ==
  {"IFCWALL", "IFCWALLSTANDARDCASE", "IFCDOOR", "IFCWINDOW", "IFCSLAB", "IFCFOOTING"}

\* Whether the element has a property named as an is-exterior property
HasIsExternalProperty(data) ==
  \E i \in 1..Len(data.props) :
    \/ includes(toLowerCase(data.props[i].key), <<"i", "s", "e", "x", "t", "e", "r", "n", "a", "l">>)
    \/ includes(toLowerCase(data.props[i].key), <<"i", "s", "_", "e", "x", "t", "e", "r", "n", "a", "l">>)

\* The substrings of the name and of the storey the rules look for
SignalTerms ==
  { <<"p", "a", "r", "t", "i", "t", "i", "o", "n">>, <<"i", "n", "t", "e", "r", "i", "o", "r">>, <<"i", "n", "t", ".">>, <<"b", "a", "s", "e", "m", "e", "n", "t">>, <<"b", "1">>, <<"b", "2">>,
    <<"u", "n", "d", "e", "r", "g", "r", "o", "u", "n", "d">>, <<"s", "u", "b">>, <<"r", "o", "o", "f">>, <<"g", "r", "a", "d", "e">>, <<"s", "o", "g">>, <<"f", "o", "u", "n", "d", "a", "t", "i", "o", "n">>,
    <<"p", "i", "l", "e">>, <<"c", "a", "i", "s", "s", "o", "n">>, <<"d", "r", "i", "l", "l", "e", "d">> }

NoHeuristicSignal(data) ==
  /\ ~HasIsExternalProperty(data)
  /\ \A t \in SignalTerms :
       ~includes(toLowerCase(data.name), t) /\ ~includes(toLowerCase(data.storey), t)

\* C11: heuristic fall-through. For an element of a family the contextual
\* heuristics cover (wall, door, window, slab, footing) without explicit
\* classification data and without heuristic signal (no is-exterior property,
\* no name or storey substring), the heuristic step returns no code and the
\* record is the type's default code with confidence 0.5.
C11_HeuristicFallThrough ==
  (/\ Classified
   /\ probe.input.ifcType \in HeuristicFamilies
   /\ probe.output.fromProps = Null
   /\ NoHeuristicSignal(probe.input))
  => /\ probe.output.contextCode = Null
     /\ probe.output.record =
          Record(IFC_TYPE_DEFAULT_MAP(probe.input.ifcType), "auto-mapped", 50)

\* The encodings of false an is-exterior property is read in
FalseEncodings == { Bool(FALSE), Str(<<"F", "a", "l", "s", "e">>), Str(<<".", "F", ".">>), Num(0) }

\* The element's is-exterior properties, and whether all of them say false
IsExternalValues(data) ==
  { data.props[i].val : i \in { j \in 1..Len(data.props) :
      \/ includes(toLowerCase(data.props[j].key), <<"i", "s", "e", "x", "t", "e", "r", "n", "a", "l">>)
      \/ includes(toLowerCase(data.props[j].key), <<"i", "s", "_", "e", "x", "t", "e", "r", "n", "a", "l">>) } }

IsExternalFalse(data) ==
  IsExternalValues(data) # {} /\ IsExternalValues(data) \subseteq FalseEncodings

\* C12: a wall (IFCWALL, IFCWALLSTANDARDCASE) without override and without
\* valid explicit classification property whose is-exterior property is false,
\* in any accepted encoding, gets {C1010, heuristic, 0.7} and not the type
\* default B2010, whatever its name and storey.
C12_InteriorWall ==
  (/\ Classified
   /\ probe.input.ifcType \in {"IFCWALL", "IFCWALLSTANDARDCASE"}
   /\ probe.output.fromProps = Null
   /\ IsExternalFalse(probe.input))
  => probe.output.record = Record(<<"C", "1", "0", "1", "0">>, "auto-mapped", 70)

\* A wall in the basement whose is-exterior property is the STEP literal .F.,
\* with a classification property that names no leaf code
C12_Witness ==
  /\ Classified
  /\ probe.input.ifcType = "IFCWALLSTANDARDCASE"
  /\ probe.input.storey = <<"B", "a", "s", "e", "m", "e", "n", "t">>
  /\ probe.input.props = << Prop(<<"D", "a", "t", "a", ".", "A", "s", "s", "e", "m", "b", "l", "y", " ", "C", "o", "d", "e">>, Str(<<"B", "9", "9", "9", "9">>)),
                            Prop(<<"P", "s", "e", "t", "_", "W", "a", "l", "l", "C", "o", "m", "m", "o", "n", ".", "I", "s", "E", "x", "t", "e", "r", "n", "a", "l">>, Str(<<".", "F", ".">>)) >>
  /\ probe.output.record = Record(<<"C", "1", "0", "1", "0">>, "auto-mapped", 70)

\* Whether some property with a classification-indicator term in its key has
\* a string value that, without periods, hyphens and whitespace, is a letter
\* A-F and four digits and a known leaf code
HasExplicitCode(data) ==
  \E i \in 1..Len(data.props) :
    LET key == toLowerCase(data.props[i].key)
        val == data.props[i].val
        code == SelectSeq(val.s, LAMBDA c : c \notin {".", "-", " ", "\t", "\n", "\r", "\f"})
    IN /\ \E j \in 1..Len(classificationKeys) : includes(key, classificationKeys[j])
       /\ val.t = "string"
       /\ Len(code) = 5
       /\ code[1] \in {"A", "B", "C", "D", "E", "F"}
       /\ \A n \in 2..5 : code[n] \in {"0", "1", "2", "3", "4", "5", "6", "7", "8", "9"}
       /\ code \in ALL_L3_CODES

\* C13: explicit classification data. An element without override is
\* classified from explicit data, with confidence 1.0, if and only if some
\* classification property holds a string that cleans to a known leaf code;
\* a value of the pattern that is no known leaf code, or a malformed one,
\* gives no explicit assignment and the element goes on to the heuristic step.
C13_ExplicitData ==
  Classified =>
    /\ (probe.output.record.source = "ifc-property") <=> HasExplicitCode(probe.input)
    /\ HasExplicitCode(probe.input) =>
         /\ probe.output.record.confidence = 100
         /\ probe.output.record.code \in ALL_L3_CODES
    /\ (~HasExplicitCode(probe.input) /\ probe.output.contextCode # Null) =>
         probe.output.record = Record(probe.output.contextCode, "auto-mapped", 70)

\* A malformed value (B2O10) is passed over and a later classification
\* property with separators in its value gives the code
C13_Witness ==
  /\ Classified
  /\ probe.input.ifcType = "IFCBEAM"
  /\ probe.input.props = << Prop(<<"D", "a", "t", "a", ".", "A", "s", "s", "e", "m", "b", "l", "y", " ", "C", "o", "d", "e">>, Str(<<"B", "2", "O", "1", "0">>)),
                            Prop(<<"I", "d", "e", "n", "t", "i", "t", "y", ".", "U", "N", "I", "F", "O", "R", "M", "A", "T", " ", "I", "I">>, Str(<<" ", "C", "-", "1", "0", " ", "1", "0", " ">>)) >>
  /\ probe.output.record = Record(<<"C", "1", "0", "1", "0">>, "ifc-property", 100)

\* ---------------- the quantities of one element ----------------
Extracted == probe.fn = "extractQuantities" /\ probe.done

Dimensions == {"area", "volume", "length", "count"}

\* The property bag of the input, empty when the data has none
BagOf(data) == IF "props" \in DOMAIN data THEN data.props ELSE <<>>

\* The values of the candidates of a dimension, and of those marked gross (the
\* mark extractQuantities sets: the lower-cased key contains "gross")
CandidateValues(props, cat) ==
  { props[i].val.n : i \in { j \in 1..Len(props) :
      /\ classifyQuantityKey(props[j].key) = cat
      /\ props[j].val.t = "number" /\ props[j].val.n > 0 } }

GrossValues(props, cat) ==
  { props[i].val.n : i \in { j \in 1..Len(props) :
      /\ classifyQuantityKey(props[j].key) = cat
      /\ props[j].val.t = "number" /\ props[j].val.n > 0
      /\ includes(toLowerCase(props[j].key), <<"g", "r", "o", "s", "s">>) } }

\* C14: gross preference. For each of area, length, volume and count,
\* extractQuantities returns the maximum over the candidates marked gross when
\* there is one, even if a candidate not marked gross is larger, and the
\* maximum over all candidates of the dimension otherwise.
C14_GrossPreference ==
  Extracted =>
    \A cat \in Dimensions :
      LET all == CandidateValues(BagOf(probe.input), cat)
          gross == GrossValues(BagOf(probe.input), cat)
          result == probe.output[cat]
      IN /\ gross # {} => result \in gross /\ \A v \in gross : v =< result
         /\ (gross = {} /\ all # {}) => result \in all /\ \A v \in all : v =< result

\* NetVolume 2.5 and GrossVolume 3.0 with a larger net volume of 4.0: volume 3.0
C14_Witness ==
  /\ Extracted
  /\ BagOf(probe.input) = << Prop(<<"B", "a", "s", "e", "Q", "u", "a", "n", "t", "i", "t", "i", "e", "s", ".", "N", "e", "t", "V", "o", "l", "u", "m", "e">>, Num(25)),
                            Prop(<<"B", "a", "s", "e", "Q", "u", "a", "n", "t", "i", "t", "i", "e", "s", ".", "G", "r", "o", "s", "s", "V", "o", "l", "u", "m", "e">>, Num(30)),
                            Prop(<<"Q", "t", "o", "_", "W", "a", "l", "l", "B", "a", "s", "e", "Q", "u", "a", "n", "t", "i", "t", "i", "e", "s", ".", "N", "e", "t", "V", "o", "l", "u", "m", "e">>, Num(40)) >>
  /\ probe.output.volume = 30

\* The set name and the property name of a key, lower-cased
SetNameOf(key) == split(toLowerCase(key), <<".">>)[1]
PropNameOf(key) ==
  LET parts == split(toLowerCase(key), <<".">>) IN parts[Len(parts)]

\* The condition under which a property may contribute to a dimension
MayContribute(p) ==
  /\ p.val.t = "number" /\ p.val.n > 0
  /\ \/ \E i \in 1..Len(QTO_SET_NAMES) : startsWith(SetNameOf(p.key), QTO_SET_NAMES[i])
     \/ \E i \in 1..Len(QUANTITY_NAME_KEYWORDS) :
          includes(PropNameOf(p.key), QUANTITY_NAME_KEYWORDS[i])

\* C15: quantity candidacy. A dimension's result is the value of a property
\* only if that value is a number above 0 and the property's set name starts
\* with a quantity-set prefix or its name contains a dimension keyword; a
\* positive number named with the keyword area is detected whatever its set; a
\* string, a zero or a negative value never contributes; an empty or missing
\* bag gives zero in every dimension.
C15_QuantityCandidacy ==
  Extracted =>
    LET props == BagOf(probe.input)
    IN /\ \A cat \in Dimensions :
            \/ probe.output[cat] = 0
            \/ \E i \in 1..Len(props) :
                 MayContribute(props[i]) /\ props[i].val.n = probe.output[cat]
       /\ (\E i \in 1..Len(props) :
             /\ props[i].val.t = "number" /\ props[i].val.n > 0
             /\ includes(PropNameOf(props[i].key), <<"a", "r", "e", "a">>))
          => probe.output.area > 0
       /\ props = <<>> => \A cat \in Dimensions : probe.output[cat] = 0

\* An area in an unrecognised set is detected; a mark and a length given as a
\* string beside it are not
C15_Witness ==
  /\ Extracted
  /\ BagOf(probe.input) = << Prop(<<"C", "u", "s", "t", "o", "m", ".", "A", "r", "e", "a">>, Num(70)),
                            Prop(<<"C", "u", "s", "t", "o", "m", ".", "M", "a", "r", "k">>, Num(5)),
                            Prop(<<"C", "u", "s", "t", "o", "m", ".", "L", "e", "n", "g", "t", "h">>, Str(<<"3", ".", "5">>)) >>
  /\ probe.output = [area |-> 70, volume |-> 0, length |-> 0, count |-> 0]

C17_FailingElementSkipped ==
  lastOp.op \in ClassifyingOps =>
    \A k \in MapKeys(elementDataMap) :
      (MapHas(manualOverrides, k) \/ ~ClassifyRaisesOf[DataOf(k)])
        => k \in DOMAIN classifications

\* ---------------- loading the persisted overrides ----------------
\* The expressID part of a stable key "filename:expressID"
StableKeyEid(stableKey) ==
  substring(stableKey, lastIndexOf(stableKey, <<":">>) + 1, Len(stableKey))

\* The composite keys a stable key may stand for in a manifest
CompositeKeysOf(ms, stableKey) ==
  { NatToStr(ms[j].idx) \o <<":">> \o StableKeyEid(stableKey) :
      j \in { n \in 1..Len(ms) : ms[n].filename = StableKeyFile(stableKey) } }

\* The persisted entries loadOverrides is to apply: file loaded, known leaf code
Applicable(ms, entries) ==
  { i \in 1..Len(entries) :
      /\ findByFilename(ms, StableKeyFile(entries[i].key)) # 0
      /\ entries[i].val \in ALL_L3_CODES }

\* C18: unresolvable stable keys are skipped on load. loadOverrides, run by the
\* refresh that ends loadIFCFiles, adds an override for every persisted entry
\* whose file is loaded and whose code is a known leaf code, adds nothing for
\* the other entries, raises no error and returns the number of entries added.
C18_LoadSkipsUnresolvable ==
  [][lastOp'.op = "loadIFCFiles" =>
       LET entries == storage.data
           todo == Applicable(models', entries)
       IN /\ \A i \in todo :
               \E k \in CompositeKeysOf(models', entries[i].key) :
                 MapHas(manualOverrides', k) /\ MapGet(manualOverrides', k) = entries[i].val
          /\ \A k \in MapKeys(manualOverrides') :
               (~MapHas(manualOverrides, k)
                  \/ MapGet(manualOverrides, k) # MapGet(manualOverrides', k))
               => \E i \in todo :
                    /\ k \in CompositeKeysOf(models', entries[i].key)
                    /\ MapGet(manualOverrides', k) = entries[i].val
          /\ MapKeys(manualOverrides) \subseteq MapKeys(manualOverrides')
          /\ loadedCount(models', entries) = Cardinality(todo)
          /\ ~completion'.raised]_vars

\* ---------------- importing an overrides file ----------------
\* C19: import merge semantics. After an import, every entry of the file that
\* resolves to a loaded element and carries a known leaf code is the override
\* of its element, whatever override the element had; every override that was
\* there before and is not named in the file is unchanged; and the records are
\* those of classifyAllElements over the merged overrides.
C19_ImportMerges ==
  [][\A d \in ImportFiles :
       ImportOverridesFromFile(d, TRUE) =>
         /\ \A i \in 1..Len(d) :
              (/\ d[i].val \in ALL_L3_CODES
               /\ CompositeKeysOf(models, d[i].key) \cap MapKeys(elementDataMap) # {})
              => \E k \in CompositeKeysOf(models, d[i].key) \cap MapKeys(elementDataMap) :
                   MapHas(manualOverrides', k) /\ MapGet(manualOverrides', k) = d[i].val
         /\ \A k \in MapKeys(manualOverrides) :
              (\A i \in 1..Len(d) : toStableKey(models, k) # d[i].key)
              => /\ MapHas(manualOverrides', k)
                 /\ MapGet(manualOverrides', k) = MapGet(manualOverrides, k)
         /\ classifications' =
              [k \in MapKeys(elementDataMap) |->
                 IF MapHas(manualOverrides', k)
                 THEN Record(MapGet(manualOverrides', k), "manual", 100)
                 ELSE ClassifyComputedOf[DataOf(k)]]]_vars

\* After an import of {A:1 -> B2030, C:7 -> B2030} over a session in which
\* element 2 of A had an override: A's element 1 carries the imported code,
\* element 2 keeps its own, and the entry of the file that is not loaded left
\* no override
C19_Witness ==
  /\ lastOp.op = "importOverridesFromFile"
  /\ Len(models) = 1 /\ models[1].filename = <<"A">>
  /\ MapHas(manualOverrides, makeKey(models[1].idx, 1))
  /\ MapGet(manualOverrides, makeKey(models[1].idx, 1)) = <<"B", "2", "0", "3", "0">>
  /\ MapHas(manualOverrides, makeKey(models[1].idx, 2))
  /\ MapGet(manualOverrides, makeKey(models[1].idx, 2)) = <<"c", "o", "n", "s", "t", "r", "u", "c", "t", "o", "r">>
  /\ Len(manualOverrides) = 2
  /\ classifications[makeKey(models[1].idx, 1)] = Record(<<"B", "2", "0", "3", "0">>, "manual", 100)

\* ---------------- the order of the storey rows ----------------
\* The elevation the store records for a storey name; none for a name
\* without entry
HasElevation(sts, name) == MapHas(sts, name)
ElevationOf(sts, name) == MapGet(sts, name).elevation_m

\* C20: spatial ordering. The storey rows are listed by descending elevation,
\* by the elevation the store records for each storey name, and a storey
\* without elevation (the Unassigned container) comes last.
C20_DescendingElevation ==
  (probe.fn = "buildSpatialEstimate" /\ probe.done) =>
    LET sts == probe.input.storeys
        rows == probe.output
    IN /\ Len(rows) = Len(probe.input.treeKeys)
       /\ \A i, j \in 1..Len(rows) :
            i < j =>
              /\ HasElevation(sts, rows[j]) => HasElevation(sts, rows[i])
              /\ (HasElevation(sts, rows[i]) /\ HasElevation(sts, rows[j]))
                 => ElevationOf(sts, rows[i]) >= ElevationOf(sts, rows[j])

\* ---- The rows of the estimate (SpecEstimate) ----
Rendered == probe.fn = "buildEstimate" /\ probe.done

RowIndexes == 1..Len(probe.input)

\* C21: whenever the aggregated quantity of a row in the unit shown for the
\* row is zero, the quantity cell shows the placeholder and not a number;
\* fmtQty and fmtCount return the placeholder exactly for the value 0.
C21_ZeroRendersBlank ==
  Rendered =>
    \A i \in RowIndexes :
      LET agg == probe.input[i].agg
          row == probe.output.rows[i]
      IN /\ agg[row.pUnit] = 0 => row.qtyCell = Placeholder
         /\ \A u \in {"ea", "sf", "lf", "cy"} :
              /\ fmtQty(agg[u]) = Placeholder <=> agg[u] = 0
              /\ fmtCount(agg[u] \div 100) = Placeholder <=> agg[u] \div 100 = 0

\* C27: the line total of a row with a cost rate is the row's aggregated
\* quantity in the rate's unit times the unit cost, so it is zero when that
\* quantity is zero; the section total is the sum of the line totals.
RECURSIVE SumLineCosts(_)
SumLineCosts(rows) ==
  IF rows = <<>> THEN 0 ELSE Head(rows).lineCost + SumLineCosts(Tail(rows))

C27_ExtendedTotal ==
  Rendered =>
    /\ \A i \in RowIndexes :
         LET agg == probe.input[i].agg
             rate == probe.input[i].rate
         IN rate.set => probe.output.rows[i].lineCost = agg[rate.unit] * rate.unitCost
    /\ probe.output.total = SumLineCosts(probe.output.rows)

\* C28: for a row without a cost rate the unit is the one among sf, lf, cy
\* whose quantity is the largest non-zero one, and ea when all three are zero.
C28_PrimaryUnit ==
  Rendered =>
    \A i \in RowIndexes :
      LET agg == probe.input[i].agg
          unit == primaryUnit(agg)
      IN IF agg.sf = 0 /\ agg.lf = 0 /\ agg.cy = 0
         THEN unit = "ea"
         ELSE /\ unit \in {"sf", "lf", "cy"}
              /\ agg[unit] > 0
              /\ \A u \in {"sf", "lf", "cy"} : agg[u] =< agg[unit]

C23_ImmediatePersistence ==
  (lastOp.op \in {"setManualClassification", "bulkAssignByType"} /\ completion.saved)
    => /\ storage.present
       /\ \A i \in 1..Len(manualOverrides) :
            LET sk == toStableKey(models, manualOverrides[i].key)
            IN sk # Null => /\ MapHas(storage.data, sk)
                            /\ MapGet(storage.data, sk) = manualOverrides[i].val
       /\ \A j \in 1..Len(storage.data) :
            \E i \in 1..Len(manualOverrides) :
              toStableKey(models, manualOverrides[i].key) = storage.data[j].key
       /\ lastOp.op = "setManualClassification" =>
            LET sk == toStableKey(models, lastOp.key)
            IN IF lastOp.code = Null
               THEN ~MapHas(storage.data, sk)
               ELSE L3_LABELS(lastOp.code)
                      => MapHas(storage.data, sk) /\ MapGet(storage.data, sk) = lastOp.code

\* ---- Manual records and the override map (SpecMalformed) ----
\* C24: manual records mirror the override map. For every key of the element
\* store, the key's record has source manual exactly when manualOverrides
\* holds an entry for the key, and then the record's code is the entry's code.
C24_ManualMirrorsOverrides ==
  \A k \in MapKeys(elementDataMap) :
    LET manual == k \in DOMAIN classifications /\ classifications[k].source = "manual"
    IN /\ manual <=> MapHas(manualOverrides, k)
       /\ manual => classifications[k].code = MapGet(manualOverrides, k)

\* ---- Model indices and composite keys (Spec) ----
\* The model index a composite key starts with
KeyModelIdx(key) == parseInt(split(key, <<":">>)[1])

\* The indices of the entries of a manifest
ModelIndices(ms) == {ms[i].idx : i \in 1..Len(ms)}

\* Indices and keys of one state: no two entries of models share an index,
\* every index in use was handed out by the counter, every key of the store
\* is the key of its element and belongs to an entry of models
IndicesDistinct(ms, counter, dataMap) ==
  /\ \A i, j \in 1..Len(ms) : ms[i].idx = ms[j].idx => i = j
  /\ \A i \in 1..Len(ms) : ms[i].idx < counter
  /\ \A i, j \in 1..Len(dataMap) : dataMap[i].key = dataMap[j].key => i = j
  /\ \A i \in 1..Len(dataMap) :
       /\ dataMap[i].key = makeKey(dataMap[i].val.modelIdx, dataMap[i].val.expressID)
       /\ KeyModelIdx(dataMap[i].key) = dataMap[i].val.modelIdx
       /\ dataMap[i].val.modelIdx \in ModelIndices(ms)

\* C25: composite keys never collide. Within a session (no page reload), every
\* model a step loads has an index that is at least the counter before the
\* step, hence greater than every index assigned before, also after a clear;
\* the counter never goes back; no two entries of models share an index; and
\* every key a step adds to the store starts with such a new index, so that it
\* equals no key of another model, loaded now or earlier.
C25_KeysNeverCollide ==
  [][lastOp'.op # "start" =>
       /\ IndicesDistinct(models, modelCounter, elementDataMap)
       /\ IndicesDistinct(models', modelCounter', elementDataMap')
       /\ modelCounter' >= modelCounter
       /\ \A idx \in ModelIndices(models') \ ModelIndices(models) :
            idx >= modelCounter /\ idx < modelCounter'
       /\ \A k \in MapKeys(elementDataMap') \ MapKeys(elementDataMap) :
            KeyModelIdx(k) >= modelCounter]_vars

\* A model loaded after the first model of the session was unloaded: it has
\* index 1, and its elements have keys 1:n
C25_Witness ==
  /\ lastOp.op = "loadIFCFiles"
  /\ Len(models) = 1
  /\ models[1].idx = 1
  /\ modelCounter = 2
  /\ \E k \in MapKeys(elementDataMap) : k = makeKey(1, 1)

\* ---- The spatial tree (Spec) ----
\* The storey nodes of the tree that list key among their elements
NodesListing(tree, key) ==
  { i \in 1..Len(tree) :
      \E t \in 1..Len(tree[i].types) :
        \E e \in 1..Len(tree[i].types[t].elems) : tree[i].types[t].elems[e] = key }

\* C30: the spatial tree lists every element. After any sequence of loads and
\* removeModel calls, each element of elementDataMap appears under exactly one
\* storey node of the tree buildSpatialTree builds, also an element whose
\* storey name is not a key of storeys.
C30_TreeListsEveryElement ==
  \A k \in MapKeys(elementDataMap) :
    Cardinality(NodesListing(buildSpatialTree(elementDataMap, storeys), k)) = 1

\* ---- Import of production records (SpecProduction) ----
\* The native entity id a composite key ends with
KeyEid(key) == split(key, <<":">>)[2]

\* C29: production import keeps element identity across sessions.
\* importFromJSON marks an element installed only if some record names the
\* element's file (record.model) and carries the element's native entity id;
\* a record of an earlier session is never applied to an element of a
\* different file that owns the record's composite key.
C29_ImportKeepsIdentity ==
  (probe.fn = "importFromJSON" /\ probe.done) =>
    \A i \in 1..Len(probe.output.installationMap) :
      LET key == probe.output.installationMap[i].key
          element == MapGet(probe.input.elementDataMap, key)
      IN \E r \in 1..Len(probe.input.records) :
           /\ probe.input.records[r].model = replaceFirst(element.file, <<".", "i", "f", "c">>, <<>>)
           /\ parseInt(KeyEid(probe.input.records[r].compositeKey)) = element.expressID

\* ---- Loads interleaved with other handlers (SpecInterleaved) ----
\* The keys of a map that start with a model's index
KeysOfModel(map, idx) == { k \in MapKeys(map) : KeyModelIdx(k) = idx }

\* C26: load/clear interleaving keeps the maps consistent. Once every load
\* has finished, each entry of models with elementCount n has exactly n keys
\* with its index in elementMeshMap and in elementDataMap, and every key of
\* the two maps carries the index of an entry of models.
C26_MapsConsistent ==
  loads = <<>> =>
    /\ \A i \in 1..Len(models) :
         /\ Cardinality(KeysOfModel(elementMeshMap, models[i].idx)) = models[i].elementCount
         /\ Cardinality(KeysOfModel(elementDataMap, models[i].idx)) = models[i].elementCount
    /\ \A k \in MapKeys(elementMeshMap) \cup MapKeys(elementDataMap) :
         KeyModelIdx(k) \in ModelIndices(models)

====
